---------------------------- MODULE Spec2Model ----------------------------
(***************************************************************************)
(* A model of the gramgraph compilation pipeline                           *)
(*     Resolve -> Transform -> Scale -> Compile                            *)
(* (src/src/resolve.rs, transform.rs, scale.rs, compiler.rs).              *)
(*                                                                         *)
(* Representation.                                                         *)
(*  - A Rust String that is data (a CSV cell, a group key, a category, a   *)
(*    facet value) is a sequence of byte codes, so that the byte-wise      *)
(*    order of String::cmp and str::parse::<f64>() are computed, not       *)
(*    assumed.  Column names and enum tags are TLA+ strings: the code only *)
(*    compares them for equality.                                          *)
(*  - An f64 is an integer count of 1/Unit.  Unit is chosen so that every  *)
(*    division the modelled code performs on the modelled inputs is exact  *)
(*    (quartile weights k/4, fences 3/2, padding 1/20, dodge slots 1/k,    *)
(*    box caps 2/5), hence \div below is the exact quotient.  The only     *)
(*    exception is the Violin statistic, whose sqrt, powf and exp are      *)
(*    evaluated in truncating fixed point.                                 *)
(*  - Option<T> is either the value or None.                               *)
(***************************************************************************)
EXTENDS Integers, Sequences, FiniteSets, TLC

Unit == 12 * 100

\* Option<T>: None is the empty sequence, Some(v) the sequence of v alone
None == << >>
Some(v) == << v >>
IsSome(o) == Len(o) > 0
IsNone(o) == Len(o) = 0

(***************************************************************************)
(* Strings as byte sequences                                               *)
(***************************************************************************)
IsDigit(c) == c \in 48..57

\* the inputs str::parse::<f64>() accepts, over the alphabet of the model:
\* an optional '-' followed by one or more decimal digits
IsNumeric(s) ==
    /\ Len(s) > 0
    /\ \/ \A i \in 1..Len(s) : IsDigit(s[i])
       \/ /\ s[1] = 45
          /\ Len(s) > 1
          /\ \A i \in 2..Len(s) : IsDigit(s[i])

RECURSIVE DigitsValue(_, _)
DigitsValue(s, n) ==
    IF n = 0 THEN 0 ELSE 10 * DigitsValue(s, n - 1) + (s[n] - 48)

\* str::parse::<f64>() of a string IsNumeric accepts, in 1/Unit
ParseF64(s) ==
    IF s[1] = 45
    THEN 0 - Unit * DigitsValue(Tail(s), Len(s) - 1)
    ELSE Unit * DigitsValue(s, Len(s))

\* String::cmp: byte-wise lexicographic, a proper prefix is smaller
StrLess(a, b) ==
    \E i \in 1..(Len(b)) :
        /\ \A j \in 1..(i - 1) : j <= Len(a) /\ a[j] = b[j]
        /\ \/ i = Len(a) + 1
           \/ i <= Len(a) /\ a[i] < b[i]

\* the least string of a non-empty set
MinStr(S) == CHOOSE a \in S : \A b \in S \ {a} : StrLess(a, b)

\* Vec<String>::sort() of the distinct strings of S
RECURSIVE SortStrings(_)
SortStrings(S) ==
    IF S = {} THEN << >>
    ELSE LET m == MinStr(S) IN << m >> \o SortStrings(S \ {m})

\* sort_by(partial_cmp) of a Vec<f64>
RECURSIVE SortNums(_)
SortNums(s) ==
    IF Len(s) = 0 THEN << >>
    ELSE LET i == CHOOSE k \in 1..Len(s) : \A j \in 1..Len(s) : s[k] <= s[j]
         IN << s[i] >> \o SortNums(SubSeq(s, 1, i - 1) \o SubSeq(s, i + 1, Len(s)))

Range(s) == { s[i] : i \in 1..Len(s) }

RECURSIVE SumSeq(_)
SumSeq(s) == IF Len(s) = 0 THEN 0 ELSE Head(s) + SumSeq(Tail(s))

\* the elements of s that satisfy Test, in order (Iterator::filter)
SelectSeqIdx(s, Keep(_)) ==
    LET RECURSIVE Go(_)
        Go(i) == IF i > Len(s) THEN << >>
                 ELSE (IF Keep(i) THEN << i >> ELSE << >>) \o Go(i + 1)
    IN Go(1)

Max2(a, b) == IF a >= b THEN a ELSE b
Min2(a, b) == IF a <= b THEN a ELSE b


(***************************************************************************)
(* Program state                                                           *)
(*   pc          the stage the render request has reached                  *)
(*   plot        the PlotSpec handed to the Resolver                       *)
(*   variables   the variable lookup table handed to the Resolver          *)
(*   data        the PlotData (headers and rows of cells)                  *)
(*   resolved    Result<ResolvedSpec> of the Resolver                      *)
(*   render_data Result<RenderData> of the Transformer                     *)
(*   scales      the ScaleSystem of the Scale Builder                      *)
(*   scene       the SceneGraph of the Compiler                            *)
(*   arg, ret    argument and result of a statistic or scale helper that   *)
(*               is exercised on its own                                   *)
(***************************************************************************)
VARIABLES pc, plot, variables, data, resolved, render_data, scales, scene, arg, ret

vars == << pc, plot, variables, data, resolved, render_data, scales, scene, arg, ret >>

Ok(v) == [ok |-> TRUE, val |-> v, err |-> None]
Err(e) == [ok |-> FALSE, val |-> None, err |-> e]

(***************************************************************************)
(* Resolver (src/src/resolve.rs)                                           *)
(***************************************************************************)
\* the strings of the model that begin with '$', with the name that follows
VarRefName ==
    [r \in {"$xcol", "$ycol", "$w", "$missing"} |->
        CASE r = "$xcol" -> "xcol"
          [] r = "$ycol" -> "ycol"
          [] r = "$w" -> "w"
          [] r = "$missing" -> "missing"]

\* str::strip_prefix('$') is Some
IsVarRef(s) == s \in DOMAIN VarRefName

\* the texts of the model that str::parse::<f64>() accepts in a variable value
VarNumber ==
    [t \in {"0.5", "1"} |-> IF t = "0.5" THEN Unit \div 2 ELSE Unit]

ErrUndefinedVariable(name) == [kind |-> "UndefinedVariable", what |-> name]
ErrVariableTypeMismatch(name) == [kind |-> "VariableTypeMismatch", what |-> name]
ErrMissingAesthetic(a) == [kind |-> "MissingAesthetic", what |-> a]

resolve_string_variable_mutant(s, table) ==
    IF IsVarRef(s) /\ VarRefName[s] \in DOMAIN table
    THEN Ok(table[VarRefName[s]])
    ELSE Ok(s)

resolve_string_variable(s, table) ==
    IF IsVarRef(s)
    THEN IF VarRefName[s] \in DOMAIN table
         THEN Ok(table[VarRefName[s]])
         ELSE Err(ErrUndefinedVariable(VarRefName[s]))
    ELSE Ok(s)

resolve_optional_string_variable(s, table) ==
    IF IsNone(s) THEN Ok(None)
    ELSE LET r == resolve_string_variable(s[1], table)
         IN IF r.ok THEN Ok(Some(r.val)) ELSE r

\* AestheticValue<String>: [tag |-> "Fixed" | "Mapped" | "Variable", v |-> text]
resolve_aesthetic_value_string(value, table) ==
    IF value.tag = "Variable"
    THEN IF value.v \in DOMAIN table
         THEN Ok([tag |-> "Fixed", v |-> table[value.v], n |-> 0])
         ELSE Err(ErrUndefinedVariable(value.v))
    ELSE Ok(value)

\* AestheticValue<f64>: [tag, v |-> column or variable name, n |-> number]
resolve_aesthetic_value_f64(value, table) ==
    IF value.tag = "Variable"
    THEN IF value.v \in DOMAIN table
         THEN IF table[value.v] \in DOMAIN VarNumber
              THEN Ok([tag |-> "Fixed", v |-> "", n |-> VarNumber[table[value.v]]])
              ELSE Err(ErrVariableTypeMismatch(value.v))
         ELSE Err(ErrUndefinedVariable(value.v))
    ELSE Ok(value)

NoValue == [tag |-> "None", v |-> "", n |-> 0]
Fixed(num) == [tag |-> "Fixed", v |-> "", n |-> num]
FixedStr(text) == [tag |-> "Fixed", v |-> text, n |-> 0]
Mapped(col) == [tag |-> "Mapped", v |-> col, n |-> 0]
Variable(name) == [tag |-> "Variable", v |-> name, n |-> 0]

\* the first error of a record of results in the order the code evaluates
\* them with `?`, or Ok of the record of values
Collect(order, results) ==
    LET bad == { i \in 1..Len(order) : ~ results[order[i]].ok }
    IN IF bad = {}
       THEN Ok([f \in Range(order) |-> results[f].val])
       ELSE LET first == CHOOSE i \in bad : \A j \in bad : i <= j
            IN Err(results[order[first]].err)

AesFields == << "x", "y", "color", "size", "shape", "alpha", "ymin", "ymax" >>

resolve_aesthetics_variables(aes, table) ==
    Collect(AesFields,
            [f \in Range(AesFields) |->
                resolve_optional_string_variable(aes[f], table)])

LabelFields == << "title", "subtitle", "x", "y", "caption" >>

resolve_labels_variables(labels, table) ==
    Collect(LabelFields,
            [f \in Range(LabelFields) |->
                resolve_optional_string_variable(labels[f], table)])

\* the fields of a layer that resolve_layer_variables rewrites, in the order
\* of each variant's struct literal; every other field is copied
LayerVarFields(kind) ==
    CASE kind = "Line" -> << "x", "y", "color", "width", "alpha" >>
      [] kind = "Point" -> << "x", "y", "color", "size", "shape", "alpha" >>
      [] kind = "Bar" -> << "x", "y", "color", "alpha", "width" >>
      [] kind = "Ribbon" -> << "x", "ymin", "ymax", "color", "alpha" >>
      [] kind = "Boxplot" -> << "x", "y", "color", "fill", "alpha", "width" >>
      [] kind = "Violin" -> << "x", "y", "color", "alpha", "width" >>

resolve_layer_variables(layer, table) ==
    LET order == LayerVarFields(layer.kind)
        r == Collect(order,
                [f \in Range(order) |->
                    CASE f \in {"x", "y", "ymin", "ymax"} ->
                            resolve_optional_string_variable(layer[f], table)
                      [] f \in {"color", "shape", "fill"} ->
                            IF layer[f].tag = "None" THEN Ok(layer[f])
                            ELSE resolve_aesthetic_value_string(layer[f], table)
                      [] OTHER ->
                            IF layer[f].tag = "None" THEN Ok(layer[f])
                            ELSE resolve_aesthetic_value_f64(layer[f], table)])
    IN IF r.ok
       THEN Ok([f \in DOMAIN layer |->
                   IF f \in Range(order) THEN r.val[f] ELSE layer[f]])
       ELSE r


\* the layer-level x and y of a layer; a Ribbon has no y of its own
x_override(layer) == layer.x
y_override(layer) == IF layer.kind = "Ribbon" THEN None ELSE layer.y

y_optional_mutant(layer) ==
    layer.stat.name \in {"Bin", "Count"} \/ layer.kind = "Ribbon"

\* the match of resolve_positional that lets a layer go without y
y_optional(layer) ==
    \/ layer.kind = "Bar" /\ layer.stat.name \in {"Bin", "Count"}
    \/ layer.kind = "Ribbon"

pick_override_mutant(override, global_aes, field) ==
    IF IsSome(global_aes) /\ IsSome(global_aes[1][field]) THEN global_aes[1][field]
    ELSE override

\* `if let Some(v) = override { v } else if let Some(aes) = global { aes.field }`
pick_override(override, global_aes, field) ==
    IF IsSome(override) THEN override
    ELSE IF IsSome(global_aes) THEN global_aes[1][field]
    ELSE None

resolve_positional(layer, global_aes) ==
    LET x_col == pick_override(x_override(layer), global_aes, "x")
        y_col == pick_override(y_override(layer), global_aes, "y")
    IN IF IsNone(x_col)
       THEN Err(ErrMissingAesthetic("x"))
       ELSE IF IsNone(y_col) /\ ~ y_optional(layer)
       THEN Err(ErrMissingAesthetic("y"))
       ELSE Ok([x_col |-> x_col[1], y_col |-> y_col])

extract_mapped_string(value) ==
    IF value.tag = "Mapped" THEN Some(value.v) ELSE None

\* Option::or_else(|| global_aes.and_then(|a| a.field))
or_global(own, global_aes, field) ==
    IF IsSome(own) THEN own
    ELSE IF IsSome(global_aes) THEN global_aes[1][field] ELSE None

resolve_layer_aesthetics(layer, global_aes) ==
    LET pos == resolve_positional(layer, global_aes)
    IN IF ~ pos.ok THEN pos
       ELSE Ok([x_col |-> pos.val.x_col,
                y_col |-> pos.val.y_col,
                ymin_col |-> or_global(IF layer.kind = "Ribbon" THEN layer.ymin ELSE None,
                                       global_aes, "ymin"),
                ymax_col |-> or_global(IF layer.kind = "Ribbon" THEN layer.ymax ELSE None,
                                       global_aes, "ymax"),
                color |-> or_global(extract_mapped_string(layer.color), global_aes, "color"),
                size |-> or_global(
                            CASE layer.kind = "Point" -> extract_mapped_string(layer.size)
                              [] layer.kind = "Ribbon" -> None
                              [] OTHER -> extract_mapped_string(layer.width),
                            global_aes, "size"),
                shape |-> or_global(IF layer.kind = "Point"
                                    THEN extract_mapped_string(layer.shape) ELSE None,
                                    global_aes, "shape"),
                alpha |-> or_global(extract_mapped_string(layer.alpha), global_aes, "alpha")])

\* one pass of the loop body of resolve_plot_aesthetics over spec.layers:
\* `?` on resolve_layer_variables, then on resolve_layer_aesthetics
resolve_layer(rl, global_aes) ==
    IF ~ rl.ok THEN rl
    ELSE LET ra == resolve_layer_aesthetics(rl.val, global_aes)
         IN IF ~ ra.ok THEN ra
            ELSE Ok([original_layer |-> rl.val, aesthetics |-> ra.val])

\* the loop of resolve_plot_aesthetics over spec.layers: the layers resolved
\* so far, or the error of the first layer that fails
RECURSIVE resolve_layers(_, _, _, _)
resolve_layers(layers, global_aes, table, done) ==
    IF Len(done) = Len(layers) THEN Ok(done)
    ELSE LET r == resolve_layer(resolve_layer_variables(layers[Len(done) + 1], table),
                                global_aes)
         IN IF ~ r.ok THEN r
            ELSE resolve_layers(layers, global_aes, table, Append(done, r.val))

NoLabels == [f \in Range(LabelFields) |-> None]

\* resolve_plot_aesthetics from the resolved layers on: the labels and the
\* ResolvedSpec
resolve_plot_layers(spec, table, facet, layers) ==
    IF ~ layers.ok THEN layers
    ELSE LET labels == resolve_labels_variables(
                         IF IsNone(spec.labels) THEN NoLabels ELSE spec.labels[1], table)
         IN IF ~ labels.ok THEN labels
            ELSE Ok([layers |-> layers.val,
                     facet |-> facet,
                     coord |-> spec.coord,
                     labels |-> labels.val,
                     x_scale_spec |-> spec.x_scale,
                     y_scale_spec |-> spec.y_scale])

resolve_plot_aesthetics(spec, table) ==
    LET aes == IF IsNone(spec.aesthetics) THEN Ok(None)
               ELSE LET a == resolve_aesthetics_variables(spec.aesthetics[1], table)
                    IN IF a.ok THEN Ok(Some(a.val)) ELSE a
        facet == IF IsNone(spec.facet) THEN Ok(None)
                 ELSE LET c == resolve_string_variable(spec.facet[1].by, table)
                      IN IF c.ok THEN Ok(Some([col |-> c.val,
                                               ncol |-> spec.facet[1].ncol,
                                               scales |-> spec.facet[1].scales]))
                         ELSE c
    IN IF ~ aes.ok THEN aes
       ELSE IF ~ facet.ok THEN facet
       ELSE resolve_plot_layers(spec, table, facet.val,
                                resolve_layers(spec.layers, aes.val, table, << >>))


(***************************************************************************)
(* Transformer (src/src/transform.rs): extraction                          *)
(***************************************************************************)
\* u8::to_ascii_lowercase over the column names of the model
AsciiLower(name) ==
    CASE name = "X" -> "x"
      [] name = "Y" -> "y"
      [] name = "G" -> "g"
      [] name = "F" -> "f"
      [] OTHER -> name

eq_ignore_ascii_case(a, b) == AsciiLower(a) = AsciiLower(b)

ErrColumnNotFound(name) == [kind |-> "ColumnNotFound", what |-> name]
ErrFacetColumnNotFound(name) == [kind |-> "FacetColumnNotFound", what |-> name]
ErrParseValue(cell) == [kind |-> "ParseValueError", what |-> cell]

\* Iterator::position: the first index that matches, if any
Position(seq, Test(_)) ==
    LET hits == { i \in 1..Len(seq) : Test(seq[i]) }
    IN IF hits = {} THEN None
       ELSE Some(CHOOSE i \in hits : \A j \in hits : i <= j)

find_col_index(headers, name) ==
    LET pos == Position(headers, LAMBDA h : eq_ignore_ascii_case(h, name))
    IN IF IsSome(pos) THEN Ok(pos[1]) ELSE Err(ErrColumnNotFound(name))

\* `if let Some(c) = col { Some(find_col_index(headers, c)?) } else { None }`
find_optional_col_index(headers, col) ==
    IF IsNone(col) THEN Ok(None)
    ELSE LET r == find_col_index(headers, col[1])
         IN IF r.ok THEN Ok(Some(r.val)) ELSE r

\* aes.color.or(aes.size).or(aes.shape).or(aes.alpha)
group_col(aes) ==
    IF IsSome(aes.color) THEN aes.color
    ELSE IF IsSome(aes.size) THEN aes.size
    ELSE IF IsSome(aes.shape) THEN aes.shape
    ELSE aes.alpha

\* the group key of the model for a layer without grouping column: "default"
DefaultKey == << 100, 101, 102, 97, 117, 108, 116 >>

\* row[idx].parse::<f64>().unwrap_or(0.0)
parse_or_zero(cell) == IF IsNumeric(cell) THEN ParseF64(cell) ELSE 0

\* the row loop of process_layer: rows bucketed by group key, in row order
extract_groups(rows, x_idx, y_idx, ymin_idx, ymax_idx, group_idx) ==
    LET bad == { r \in 1..Len(rows) :
                    IsSome(y_idx) /\ ~ IsNumeric(rows[r][y_idx[1]]) }
        key(r) == IF IsSome(group_idx) THEN rows[r][group_idx[1]] ELSE DefaultKey
        members(k) == SelectSeqIdx(rows, LAMBDA r : key(r) = k)
    IN IF bad # {}
       THEN LET first == CHOOSE r \in bad : \A q \in bad : r <= q
            IN Err(ErrParseValue(rows[first][y_idx[1]]))
       ELSE Ok([k \in { key(r) : r \in 1..Len(rows) } |->
                  LET m == members(k)
                  IN [x |-> [i \in 1..Len(m) |-> rows[m[i]][x_idx]],
                      y |-> [i \in 1..Len(m) |->
                                IF IsSome(y_idx) THEN ParseF64(rows[m[i]][y_idx[1]])
                                ELSE 0],
                      ymin |-> [i \in 1..Len(m) |->
                                IF IsSome(ymin_idx) THEN parse_or_zero(rows[m[i]][ymin_idx[1]])
                                ELSE 0],
                      ymax |-> [i \in 1..Len(m) |->
                                IF IsSome(ymax_idx) THEN parse_or_zero(rows[m[i]][ymax_idx[1]])
                                ELSE 0]]])

(***************************************************************************)
(* Transformer: statistics                                                 *)
(***************************************************************************)
\* StatData::from_tuple
from_tuple(x, y, ymin, ymax) ==
    [x |-> x, y |-> y, ymin |-> ymin, ymax |-> ymax, boxplot |-> None, violin |-> None]

percentile_mutant(sorted_data, pn, pd) ==
    LET n == Len(sorted_data)
    IN IF n = 0 THEN 0
       ELSE sorted_data[((pn * (n - 1)) \div pd) + 1]

\* percentile(sorted_data, p) for p = pn / pd
percentile(sorted_data, pn, pd) ==
    LET n == Len(sorted_data)
        rank_num == pn * (n - 1)
        lower_idx == rank_num \div pd
        upper_idx == IF rank_num % pd = 0 THEN lower_idx ELSE lower_idx + 1
        weight_num == rank_num - lower_idx * pd
    IN IF n = 0 THEN 0
       ELSE IF n = 1 THEN sorted_data[1]
       ELSE IF lower_idx = upper_idx THEN sorted_data[lower_idx + 1]
       ELSE (sorted_data[lower_idx + 1] * (pd - weight_num)
             + sorted_data[upper_idx + 1] * weight_num) \div pd

\* Iterator::min_by / max_by over the values that pass the filter
MinOf(S) == CHOOSE v \in S : \A w \in S : v <= w
MaxOf(S) == CHOOSE v \in S : \A w \in S : v >= w

\* f64::INFINITY and f64::NEG_INFINITY, beyond every finite value of the model
F64Inf == 2^30
F64NegInf == 0 - F64Inf
\* stands for NaN: every comparison with it is false in the source
F64NaN == F64Inf + 1

\* the folds from f64::INFINITY / NEG_INFINITY with f64::min / f64::max
fold_min(S) == IF S = {} THEN F64Inf ELSE MinOf(S)
fold_max(S) == IF S = {} THEN F64NegInf ELSE MaxOf(S)

boxplot_summary_mutant(ys, q1, median, q3) ==
    LET iqr == q3 - q1
        lower_fence == q1 - (3 * iqr) \div 2
        upper_fence == q3 + (3 * iqr) \div 2
        out == SelectSeqIdx(ys, LAMBDA i : ys[i] < lower_fence \/ ys[i] > upper_fence)
    IN [q1 |-> q1, median |-> median, q3 |-> q3, iqr |-> iqr,
        lower_fence |-> lower_fence, upper_fence |-> upper_fence,
        lower_whisker |-> MinOf(Range(ys)),
        upper_whisker |-> MaxOf(Range(ys)),
        outliers |-> [i \in 1..Len(out) |-> ys[out[i]]]]

\* the fences, whiskers and outliers of the sorted values ys with quartiles
\* q1, median and q3
boxplot_summary(ys, q1, median, q3) ==
    LET iqr == q3 - q1
        lower_fence == q1 - (3 * iqr) \div 2
        upper_fence == q3 + (3 * iqr) \div 2
        inside_low == { v \in Range(ys) : v >= lower_fence }
        inside_high == { v \in Range(ys) : v <= upper_fence }
        out == SelectSeqIdx(ys, LAMBDA i : ys[i] < lower_fence \/ ys[i] > upper_fence)
    IN [q1 |-> q1, median |-> median, q3 |-> q3, iqr |-> iqr,
        lower_fence |-> lower_fence, upper_fence |-> upper_fence,
        lower_whisker |-> IF inside_low = {} THEN q1 ELSE MinOf(inside_low),
        upper_whisker |-> IF inside_high = {} THEN q3 ELSE MaxOf(inside_high),
        outliers |-> [i \in 1..Len(out) |-> ys[out[i]]]]

\* the body of the `for x_val in unique_x` loop of compute_boxplot_stat
boxplot_of(ys_unsorted) ==
    LET ys == SortNums(ys_unsorted)
    IN boxplot_summary(ys, percentile(ys, 1, 4), percentile(ys, 2, 4),
                       percentile(ys, 3, 4))

\* the values of one x of a group, in row order (x_groups[x])
ys_at(group, x_val) ==
    LET idx == SelectSeqIdx(group.x, LAMBDA i : group.x[i] = x_val)
    IN [i \in 1..Len(idx) |-> group.y[idx[i]]]

\* the StatData pushed for one group: the vectors over its sorted x values
boxplot_stat_data(unique_x, box) ==
    [x |-> unique_x,
     y |-> [i \in 1..Len(unique_x) |-> box[i].median],
     ymin |-> [i \in 1..Len(unique_x) |-> box[i].lower_whisker],
     ymax |-> [i \in 1..Len(unique_x) |-> box[i].upper_whisker],
     boxplot |-> Some([q1 |-> [i \in 1..Len(unique_x) |-> box[i].q1],
                       median |-> [i \in 1..Len(unique_x) |-> box[i].median],
                       q3 |-> [i \in 1..Len(unique_x) |-> box[i].q3],
                       outliers |-> [i \in 1..Len(unique_x) |-> box[i].outliers]]),
     violin |-> None]

compute_boxplot_stat(groups) ==
    [key \in DOMAIN groups |->
        LET unique_x == SortStrings(Range(groups[key].x))
        IN boxplot_stat_data(unique_x,
              [i \in 1..Len(unique_x) |-> boxplot_of(ys_at(groups[key], unique_x[i]))])]

compute_count_stat_mutant(groups) ==
    [key \in DOMAIN groups |->
        LET keys == SortStrings(Range(groups[key].x))
            count(k) == Unit
        IN from_tuple(keys,
                      [i \in 1..Len(keys) |-> count(keys[i])],
                      [i \in 1..Len(keys) |-> 0],
                      [i \in 1..Len(keys) |-> count(keys[i])])]

compute_count_stat(groups) ==
    [key \in DOMAIN groups |->
        LET keys == SortStrings(Range(groups[key].x))
            count(k) == Unit * Cardinality({ i \in 1..Len(groups[key].x) : groups[key].x[i] = k })
        IN from_tuple(keys,
                      [i \in 1..Len(keys) |-> count(keys[i])],
                      [i \in 1..Len(keys) |-> 0],
                      [i \in 1..Len(keys) |-> count(keys[i])])]

(***************************************************************************)
(* Violin statistic.  Values are counts of 1/Unit; kernel values and raw    *)
(* densities are counts of 1/KernelOne; sqrt, powf and exp are evaluated    *)
(* in fixed point, truncating.                                             *)
(***************************************************************************)
GRID_POINTS == 128

KernelOne == 10^5

\* f64::sqrt, truncated to a whole count
f64_sqrt(v) == CHOOSE k \in 0..(6 * Unit) : k * k <= v /\ (k + 1) * (k + 1) > v

\* n.powf(-0.2) in 1/10^4, for the sample sizes of the model
powf_neg02(n) ==
    CASE n = 2 -> 8706 [] n = 3 -> 8027 [] n = 4 -> 7579 [] n = 5 -> 7248
      [] n = 6 -> 6988 [] OTHER -> 6776

silverman_bandwidth(sorted_ys) ==
    LET n == Len(sorted_ys)
        mean == SumSeq(sorted_ys) \div n
        variance == SumSeq([i \in 1..n |-> (sorted_ys[i] - mean) * (sorted_ys[i] - mean)])
                    \div (n - 1)
        std_dev == f64_sqrt(variance)
        iqr == percentile(sorted_ys, 3, 4) - percentile(sorted_ys, 1, 4)
        scale == IF iqr > 0 THEN Min2(std_dev, (iqr * 100) \div 134) ELSE std_dev
    IN IF n < 2 THEN Unit
       ELSE IF scale <= 0 THEN Unit
       ELSE (9 * scale * powf_neg02(n)) \div (10 * 10^4)

\* exp(-u*u/2) / sqrt(2 pi) in 1/KernelOne, tabulated every quarter of |u|
KernelTable ==
    << 39894, 38666, 35206, 30113, 24197, 18264, 12951, 8627, 5399, 3173,
       1752, 909, 443, 202, 87, 35, 13, 4, 1 >>

\* gaussian_kernel(u) for u given in hundredths
gaussian_kernel(u100) ==
    LET a == IF u100 < 0 THEN 0 - u100 ELSE u100
        idx == (a \div 25) + 1
    IN IF idx > Len(KernelTable) THEN 0 ELSE KernelTable[idx]

normalize_mutant(density) == density

\* the normalisation pass of compute_kde
normalize(density) ==
    LET max_density == fold_max(Range(density) \cup {0})
    IN IF max_density > 0
       THEN [i \in 1..Len(density) |-> (density[i] * Unit) \div max_density]
       ELSE density

\* the raw density at y: sum of the kernels, divided by n * bandwidth
kde_at(sample, bandwidth, y) ==
    (SumSeq([j \in 1..Len(sample) |-> gaussian_kernel(((y - sample[j]) * 100) \div bandwidth)])
     * Unit) \div (Len(sample) * bandwidth)

compute_kde(sample, bandwidth) ==
    LET min_y == fold_min(Range(sample))
        max_y == fold_max(Range(sample))
        y_start == min_y - 3 * bandwidth
        y_end == max_y + 3 * bandwidth
        range == y_end - y_start
        grid_y == [i \in 1..GRID_POINTS |-> y_start + ((i - 1) * range) \div (GRID_POINTS - 1)]
    IN IF Len(sample) = 0 THEN [grid_y |-> << >>, density |-> << >>]
       ELSE IF range <= 0 THEN [grid_y |-> << min_y >>, density |-> << Unit >>]
       ELSE [grid_y |-> grid_y,
             density |-> normalize([i \in 1..GRID_POINTS |->
                                      kde_at(sample, bandwidth, grid_y[i])])]

\* the ViolinStats of the sorted values, given bandwidth and density estimate
violin_summary(sorted_ys, draw_quantiles, bandwidth, kde) ==
    [min_y |-> sorted_ys[1],
     max_y |-> sorted_ys[Len(sorted_ys)],
     median |-> percentile(sorted_ys, 1, 2),
     bandwidth |-> bandwidth,
     density |-> kde.density,
     density_y |-> kde.grid_y,
     quantile_values |-> [q \in 1..Len(draw_quantiles) |->
                            percentile(sorted_ys, draw_quantiles[q][1],
                                       draw_quantiles[q][2])]]

\* the body of the `for x_val in unique_x` loop of compute_violin_stat;
\* a quantile p is the pair << numerator, denominator >>
violin_of(ys, draw_quantiles) ==
    LET sorted_ys == SortNums(ys)
        bandwidth == silverman_bandwidth(sorted_ys)
    IN violin_summary(sorted_ys, draw_quantiles, bandwidth,
                      compute_kde(sorted_ys, bandwidth))

\* the StatData pushed for one group: the vectors over its sorted x values
violin_stat_data(unique_x, v) ==
    [x |-> unique_x,
     y |-> [i \in 1..Len(unique_x) |-> v[i].median],
     ymin |-> [i \in 1..Len(unique_x) |-> v[i].min_y],
     ymax |-> [i \in 1..Len(unique_x) |-> v[i].max_y],
     boxplot |-> None,
     violin |-> Some([density |-> [i \in 1..Len(unique_x) |-> v[i].density],
                      density_y |-> [i \in 1..Len(unique_x) |-> v[i].density_y],
                      quantile_values |->
                        [i \in 1..Len(unique_x) |-> v[i].quantile_values]])]

compute_violin_stat(groups, draw_quantiles) ==
    [key \in DOMAIN groups |->
        LET unique_x == SortStrings(Range(groups[key].x))
        IN violin_stat_data(unique_x,
              [i \in 1..Len(unique_x) |->
                 violin_of(ys_at(groups[key], unique_x[i]), draw_quantiles)])]

ErrStat(what) == [kind |-> "StatError", what |-> what]

\* the decimal digits of a natural number
RECURSIVE Digits(_)
Digits(n) == IF n < 10 THEN << 48 + n >> ELSE Digits(n \div 10) \o << 48 + (n % 10) >>

\* format!("{:.2}", v): v rounded to hundredths, two decimals
format_2(v) ==
    LET a == IF v < 0 THEN 0 - v ELSE v
        h == (200 * a + Unit) \div (2 * Unit)
    IN (IF v < 0 THEN << 45 >> ELSE << >>)
       \o Digits(h \div 100) \o << 46, 48 + ((h % 100) \div 10), 48 + (h % 10) >>

\* ((v - min) / width).floor(), where width = range / bin_count, or 1.0 when
\* the range is 0
bin_index(v, min, range, bin_count) ==
    IF range = 0 THEN (v - min) \div Unit ELSE ((v - min) * bin_count) \div range

\* min + idx * width + width / 2
bin_center(idx, min, range, bin_count) ==
    IF range = 0 THEN min + idx * Unit + Unit \div 2
    ELSE min + ((2 * idx + 1) * range) \div (2 * bin_count)

\* bins.keys() collected and sorted
RECURSIVE SortKeys(_)
SortKeys(S) == IF S = {} THEN << >> ELSE << MinOf(S) >> \o SortKeys(S \ {MinOf(S)})

\* the StatData of one partition: one point per bin index that occurs, in
\* ascending index order
bin_stat_data(xs, min, range, bin_count) ==
    LET idx(i) == bin_index(ParseF64(xs[i]), min, range, bin_count)
        bin_indices == SortKeys({ idx(i) : i \in 1..Len(xs) })
        count(b) == Cardinality({ i \in 1..Len(xs) : idx(i) = b }) * Unit
    IN from_tuple([j \in 1..Len(bin_indices) |->
                     format_2(bin_center(bin_indices[j], min, range, bin_count))],
                  [j \in 1..Len(bin_indices) |-> count(bin_indices[j])],
                  [j \in 1..Len(bin_indices) |-> 0],
                  [j \in 1..Len(bin_indices) |-> count(bin_indices[j])])

compute_bin_stat(groups, bin_count) ==
    LET all_x == UNION { Range(groups[k].x) : k \in DOMAIN groups }
        all_values == { ParseF64(x) : x \in all_x }
        min == fold_min(all_values)
        max == fold_max(all_values)
    IN IF \E x \in all_x : ~ IsNumeric(x)
       THEN Err(ErrStat("Stat 'bin' requires numeric x data"))
       ELSE IF all_values = {}
       THEN Ok([k \in DOMAIN groups |->
                  from_tuple(groups[k].x, groups[k].y, groups[k].ymin, groups[k].ymax)])
       ELSE Ok([k \in DOMAIN groups |->
                  bin_stat_data(groups[k].x, min, max - min, bin_count)])

\* the Identity, Count, Boxplot and Violin arms of apply_statistics
\* f64::to_string of a whole number
f64_to_string(v) ==
    IF v < 0 THEN << 45 >> \o Digits((0 - v) \div Unit) ELSE Digits(v \div Unit)

\* slope * at + intercept of the least-squares line through the points
\* (xs[i], ys[i]), all whole numbers; NaN when every x is the same (0 / 0)
smooth_line(xs, ys, at) ==
    LET n == Len(xs)
        sum_x == SumSeq(xs)
        sum_y == SumSeq(ys)
        sum_xx == SumSeq([i \in 1..n |-> xs[i] * xs[i]])
        sum_xy == SumSeq([i \in 1..n |-> xs[i] * ys[i]])
        num == n * sum_xy - sum_x * sum_y
        den == n * sum_xx - sum_x * sum_x
    IN IF den = 0 THEN F64NaN
       ELSE (Unit * (sum_y * den + num * (n * at - sum_x))) \div (n * den)

compute_smooth_stat(groups) ==
    IF \E k \in DOMAIN groups : \E i \in 1..Len(groups[k].x) : ~ IsNumeric(groups[k].x[i])
    THEN Err(ErrStat("Stat 'smooth' requires numeric x data"))
    ELSE LET kept == { k \in DOMAIN groups : Len(groups[k].x) >= 2 }
         IN Ok([k \in kept |->
                  LET xs == [i \in 1..Len(groups[k].x) |-> ParseF64(groups[k].x[i]) \div Unit]
                      ys == [i \in 1..Len(groups[k].y) |-> groups[k].y[i] \div Unit]
                      min_x == MinOf(Range(xs))
                      max_x == MaxOf(Range(xs))
                      new_y == << smooth_line(xs, ys, min_x), smooth_line(xs, ys, max_x) >>
                  IN from_tuple(<< f64_to_string(min_x * Unit), f64_to_string(max_x * Unit) >>,
                                new_y, new_y, new_y)])

apply_statistics(groups, stat) ==
    CASE stat.name = "Smooth" -> compute_smooth_stat(groups)
      [] stat.name = "Identity" ->
            Ok([k \in DOMAIN groups |->
                  from_tuple(groups[k].x, groups[k].y, groups[k].ymin, groups[k].ymax)])
      [] stat.name = "Count" -> Ok(compute_count_stat(groups))
      [] stat.name = "Boxplot" -> Ok(compute_boxplot_stat(groups))
      [] stat.name = "Violin" -> Ok(compute_violin_stat(groups, stat.draw_quantiles))

(***************************************************************************)
(* Palette assignment (crate::palette; its source is not part of src/):    *)
(* the i-th key of the sorted key list gets the i-th palette entry.        *)
(***************************************************************************)
Category10 ==
    << "#1f77b4", "#ff7f0e", "#2ca02c", "#d62728", "#9467bd",
       "#8c564b", "#e377c2", "#7f7f7f", "#bcbd22", "#17becf" >>

DefaultShapes == << "circle", "square", "triangle", "diamond", "cross" >>

IndexOf(seq, v) == CHOOSE i \in 1..Len(seq) : seq[i] = v

assign_colors(keys) ==
    [k \in Range(keys) |-> Category10[((IndexOf(keys, k) - 1) % Len(Category10)) + 1]]

assign_sizes(keys) ==
    [k \in Range(keys) |-> IndexOf(keys, k) * Unit]

assign_shapes(keys) ==
    [k \in Range(keys) |-> DefaultShapes[((IndexOf(keys, k) - 1) % Len(DefaultShapes)) + 1]]

(***************************************************************************)
(* Transformer: axis kind, categories, position, style                     *)
(***************************************************************************)
\* get_sorted_keys
get_sorted_keys(map) == SortStrings(DOMAIN map)

\* every order `category_order` can have after the sort of process_layer:
\* the HashSet is drained in an arbitrary order and the sort is stable, so
\* categories that parse to the same number may come out in either order
RECURSIVE NumericOrders(_)
NumericOrders(S) ==
    IF S = {} THEN { << >> }
    ELSE UNION { { << m >> \o rest : rest \in NumericOrders(S \ {m}) } :
                 m \in { a \in S : \A b \in S : ParseF64(a) <= ParseF64(b) } }

category_orders_mutant(unique_cats) == { SortStrings(unique_cats) }

category_orders(unique_cats) ==
    IF \A c \in unique_cats : IsNumeric(c)
    THEN NumericOrders(unique_cats)
    ELSE { SortStrings(unique_cats) }

\* Option<AestheticValue<T>> -> Option<T>: the Fixed value, if any
fixed_string(value) == IF value.tag = "Fixed" THEN Some(value.v) ELSE None
fixed_number(value) == IF value.tag = "Fixed" THEN Some(value.n) ELSE None

build_style(group_key, layer, aes, color_map, size_map, shape_map) ==
    LET pick_color == IF IsSome(aes.color) /\ group_key \in DOMAIN color_map
                      THEN Some(color_map[group_key])
                      ELSE fixed_string(layer.color)
        pick_size(l_val) == IF IsSome(aes.size) /\ group_key \in DOMAIN size_map
                            THEN Some(size_map[group_key])
                            ELSE fixed_number(l_val)
        pick_shape == IF IsSome(aes.shape) /\ group_key \in DOMAIN shape_map
                      THEN Some(shape_map[group_key])
                      ELSE fixed_string(layer.shape)
    IN [kind |-> layer.kind,
        color |-> pick_color,
        width |-> CASE layer.kind = "Point" -> pick_size(layer.size)
                    [] layer.kind = "Ribbon" -> None
                    [] OTHER -> pick_size(layer.width),
        shape |-> IF layer.kind = "Point" THEN pick_shape ELSE None,
        alpha |-> fixed_number(layer.alpha),
        draw_quantiles |-> layer.draw_quantiles]

is_stacked(layer) == layer.kind = "Bar" /\ layer.position = "Stack"

stack_start_mutant(offsets, stack_key) == 0

\* *stack_offsets.get(&stack_key).unwrap_or(&0.0)
stack_start(offsets, stack_key) ==
    IF stack_key \in DOMAIN offsets THEN offsets[stack_key] ELSE 0

\* the stacked arm of the point loop of process_layer, over the points of
\* one group: y_start and y_end of every point and the offsets left behind
RECURSIVE stack_group(_, _, _, _)
stack_group(stack_keys, ys, offsets, acc) ==
    IF Len(acc.y_start) = Len(stack_keys)
    THEN [y_start |-> acc.y_start, y_end |-> acc.y_end, offsets |-> offsets]
    ELSE LET i == Len(acc.y_start) + 1
             start == stack_start(offsets, stack_keys[i])
             end == start + ys[i]
         IN stack_group(stack_keys, ys,
                [k \in DOMAIN offsets \cup {stack_keys[i]} |->
                    IF k = stack_keys[i] THEN end ELSE offsets[k]],
                [y_start |-> Append(acc.y_start, start),
                 y_end |-> Append(acc.y_end, end)])

\* one iteration of `for key in sorted_group_keys`: the GroupData of the
\* group and the stack offsets it leaves
build_group(layer_spec, key, stat_data, use_categorical, category_order, style, offsets) ==
    LET layer == layer_spec.original_layer
        n == Len(stat_data.x)
        x_floats == [i \in 1..n |->
                        IF use_categorical
                        THEN (IndexOf(category_order, stat_data.x[i]) - 1) * Unit
                        ELSE ParseF64(stat_data.x[i])]
        stack_keys == [i \in 1..n |->
                        IF use_categorical THEN stat_data.x[i] ELSE x_floats[i]]
        stacked == stack_group(stack_keys, stat_data.y, offsets,
                               [y_start |-> << >>, y_end |-> << >>])
        raw_range == layer.kind \in {"Ribbon", "Boxplot", "Violin"}
        zeros == [i \in 1..n |-> 0]
        y_starts == IF is_stacked(layer) THEN stacked.y_start
                    ELSE IF raw_range THEN stat_data.ymin ELSE zeros
        y_ends == IF is_stacked(layer) THEN stacked.y_end
                  ELSE IF raw_range THEN stat_data.ymax ELSE stat_data.y
    IN [group |->
          [key |-> key,
           x |-> x_floats,
           y |-> y_ends,
           y_start |-> y_starts,
           y_min |-> y_starts,
           y_max |-> y_ends,
           y_q1 |-> IF IsSome(stat_data.boxplot) THEN stat_data.boxplot[1].q1 ELSE zeros,
           y_median |-> IF IsSome(stat_data.boxplot) THEN stat_data.boxplot[1].median ELSE zeros,
           y_q3 |-> IF IsSome(stat_data.boxplot) THEN stat_data.boxplot[1].q3 ELSE zeros,
           outliers |-> IF IsSome(stat_data.boxplot) THEN stat_data.boxplot[1].outliers
                        ELSE [i \in 1..n |-> << >>],
           violin_density |-> IF IsSome(stat_data.violin) THEN stat_data.violin[1].density
                              ELSE [i \in 1..n |-> << >>],
           violin_density_y |-> IF IsSome(stat_data.violin) THEN stat_data.violin[1].density_y
                                ELSE [i \in 1..n |-> << >>],
           violin_quantile_values |->
                IF IsSome(stat_data.violin) THEN stat_data.violin[1].quantile_values
                ELSE [i \in 1..n |-> << >>],
           x_categories |-> IF use_categorical THEN Some(category_order) ELSE None,
           style |-> style],
        offsets |-> IF is_stacked(layer) THEN stacked.offsets ELSE offsets]

\* the loop `for key in sorted_group_keys` of process_layer
RECURSIVE build_groups(_, _, _, _, _, _, _)
build_groups(layer_spec, stat_groups, keys, use_categorical, category_order, offsets, done) ==
    IF Len(done) = Len(keys) THEN done
    ELSE LET key == keys[Len(done) + 1]
             style == build_style(key, layer_spec.original_layer, layer_spec.aesthetics,
                                  assign_colors(keys), assign_sizes(keys), assign_shapes(keys))
             b == build_group(layer_spec, key, stat_groups[key], use_categorical,
                              category_order, style, offsets)
         IN build_groups(layer_spec, stat_groups, keys, use_categorical, category_order,
                         b.offsets, Append(done, b.group))

\* the x strings of every group after the statistic pass
all_x_strings(stat_groups) == UNION { Range(stat_groups[k].x) : k \in DOMAIN stat_groups }

use_categorical_x_mutant(layer, stat_groups) ==
    ~ \A x \in all_x_strings(stat_groups) : IsNumeric(x)

use_categorical_x(layer, stat_groups) ==
    \/ layer.kind \in {"Bar", "Boxplot", "Violin"}
    \/ ~ \A x \in all_x_strings(stat_groups) : IsNumeric(x)

\* process_layer from the statistic pass on: `?` on apply_statistics, the
\* categorical decision, the category order and the groups built in the
\* order of the sorted keys
process_layer_stat(layer_spec, st) ==
    IF ~ st.ok THEN { st }
    ELSE LET cat == use_categorical_x(layer_spec.original_layer, st.val)
         IN { Ok([groups |-> build_groups(layer_spec, st.val, get_sorted_keys(st.val),
                                          cat, order, << >>, << >>)]) :
              order \in IF cat THEN category_orders(all_x_strings(st.val))
                        ELSE { << >> } }

\* process_layer once the five column lookups are made: `?` on each in
\* order, then the row loop and the statistic
process_layer_columns(layer_spec, dataset, x_idx, y_idx, ymin_idx, ymax_idx, group_idx) ==
    IF ~ x_idx.ok THEN { x_idx }
    ELSE IF ~ y_idx.ok THEN { y_idx }
    ELSE IF ~ ymin_idx.ok THEN { ymin_idx }
    ELSE IF ~ ymax_idx.ok THEN { ymax_idx }
    ELSE IF ~ group_idx.ok THEN { group_idx }
    ELSE LET raw == extract_groups(dataset.rows, x_idx.val, y_idx.val,
                                   ymin_idx.val, ymax_idx.val, group_idx.val)
         IN IF ~ raw.ok THEN { raw }
            ELSE process_layer_stat(layer_spec,
                    apply_statistics(raw.val, layer_spec.original_layer.stat))

\* process_layer: every LayerData (or the error) it can return; more than
\* one only when categories tie in the numeric sort
process_layer(layer_spec, dataset) ==
    process_layer_columns(layer_spec, dataset,
        find_col_index(dataset.headers, layer_spec.aesthetics.x_col),
        find_optional_col_index(dataset.headers, layer_spec.aesthetics.y_col),
        find_optional_col_index(dataset.headers, layer_spec.aesthetics.ymin_col),
        find_optional_col_index(dataset.headers, layer_spec.aesthetics.ymax_col),
        find_optional_col_index(dataset.headers, group_col(layer_spec.aesthetics)))

(***************************************************************************)
(* Transformer: facets and panels                                          *)
(***************************************************************************)
partition_data_mutant(spec, dataset) ==
    Ok(<< [title |-> << >>, data |-> dataset] >>)

\* partition_data: the DataPartitions, one per facet value in sorted order
partition_data(spec, dataset) ==
    IF IsSome(spec.facet)
    THEN LET col_idx == Position(dataset.headers,
                                 LAMBDA h : eq_ignore_ascii_case(h, spec.facet[1].col))
         IN IF IsNone(col_idx) THEN Err(ErrFacetColumnNotFound(spec.facet[1].col))
            ELSE LET c == col_idx[1]
                     keys == SortStrings({ dataset.rows[r][c] : r \in 1..Len(dataset.rows) })
                 IN Ok([p \in 1..Len(keys) |->
                          LET m == SelectSeqIdx(dataset.rows,
                                                LAMBDA r : dataset.rows[r][c] = keys[p])
                          IN [title |-> keys[p],
                              data |-> [headers |-> dataset.headers,
                                        rows |-> [i \in 1..Len(m) |-> dataset.rows[m[i]]]]]])
    ELSE Ok(<< [title |-> << >>, data |-> dataset] >>)

\* stands for usize::MAX, what `inf as usize` saturates to: larger than every
\* other count of the model
UsizeMax == 2^30 - 1

\* (a as f64 / b as f64).ceil() as usize
ceil_div(a, b) ==
    IF b = 0 THEN (IF a = 0 THEN 0 ELSE UsizeMax)
    ELSE (a + b - 1) \div b

\* (n as f64).sqrt().ceil() as usize
ceil_sqrt(n) == CHOOSE k \in 0..n : k * k >= n /\ \A j \in 0..(k - 1) : j * j < n

calculate_grid_dimensions(n_panels, facet) ==
    IF IsSome(facet) /\ IsSome(facet[1].ncol)
    THEN [nrow |-> ceil_div(n_panels, facet[1].ncol[1]), ncol |-> facet[1].ncol[1]]
    ELSE LET cols == ceil_sqrt(n_panels)
         IN [nrow |-> ceil_div(n_panels, cols), ncol |-> cols]

\* process_partition: every Result<Vec<LayerData>> the layer loop can give,
\* from layer i on
RECURSIVE process_layers(_, _, _)
process_layers(layers, dataset, i) ==
    IF i > Len(layers) THEN { Ok(<< >>) }
    ELSE UNION { IF ~ r.ok THEN { r }
                 ELSE { IF rest.ok THEN Ok(<< r.val >> \o rest.val) ELSE rest :
                        rest \in process_layers(layers, dataset, i + 1) } :
                 r \in process_layer(layers[i], dataset) }

\* the panel loop of apply_transformations, from partition p on
RECURSIVE process_partitions(_, _, _)
process_partitions(spec, partitions, p) ==
    IF p > Len(partitions) THEN { Ok(<< >>) }
    ELSE UNION { IF ~ r.ok THEN { r }
                 ELSE { IF rest.ok
                        THEN Ok(<< [index |-> p - 1, layers |-> r.val] >> \o rest.val)
                        ELSE rest :
                        rest \in process_partitions(spec, partitions, p + 1) } :
                 r \in process_layers(spec.layers, partitions[p].data, 1) }

\* apply_transformations: every Result<RenderData> it can return
apply_transformations(spec, dataset) ==
    LET parts == partition_data(spec, dataset)
    IN IF ~ parts.ok THEN { parts }
       ELSE LET grid == calculate_grid_dimensions(Len(parts.val), spec.facet)
            IN { IF ~ panels.ok THEN panels
                 ELSE Ok([panels |-> panels.val,
                          facet_layout |->
                            [nrow |-> grid.nrow, ncol |-> grid.ncol,
                             panel_titles |-> [p \in 1..Len(parts.val) |->
                                                 parts.val[p].title]]]) :
                 panels \in process_partitions(spec, parts.val, 1) }

(***************************************************************************)
(* Scale Builder (src/src/scale.rs)                                        *)
(***************************************************************************)
\* a - b and a + b over finite values and the two infinities (no NaN arises
\* from the operands the Scale Builder passes)
f64_sub(a, b) ==
    IF a \in {F64Inf, F64NegInf} THEN a
    ELSE IF b = F64Inf THEN F64NegInf
    ELSE IF b = F64NegInf THEN F64Inf
    ELSE a - b

f64_add(a, b) ==
    IF a \in {F64Inf, F64NegInf} THEN a
    ELSE IF b \in {F64Inf, F64NegInf} THEN b
    ELSE a + b

\* a * 0.05
f64_times_005(a) == IF a \in {F64Inf, F64NegInf} THEN a ELSE a \div 20

\* the groups of a panel in iteration order: layer after layer
RECURSIVE panel_groups(_, _)
panel_groups(layers, l) ==
    IF l > Len(layers) THEN << >>
    ELSE layers[l].groups \o panel_groups(layers, l + 1)

MinMax(min, max, is_categorical, categories) ==
    [min |-> min, max |-> max, is_categorical |-> is_categorical, categories |-> categories]

\* the first non-empty entry of a sequence of category lists, else empty
first_non_empty(lists) ==
    LET hits == { i \in 1..Len(lists) : Len(lists[i]) > 0 }
    IN IF hits = {} THEN << >>
       ELSE lists[CHOOSE i \in hits : \A j \in hits : i <= j]

calculate_min_max_x(panel) ==
    LET groups == panel_groups(panel.layers, 1)
        with_cats == SelectSeq(groups, LAMBDA g : IsSome(g.x_categories))
        is_cat == Len(with_cats) > 0
        categories == first_non_empty([i \in 1..Len(with_cats) |->
                                         with_cats[i].x_categories[1]])
        xs == UNION { Range(groups[g].x) : g \in 1..Len(groups) }
    IN IF is_cat
       THEN MinMax(0, (Max2(Len(categories), 1) - 1) * Unit, TRUE, categories)
       ELSE MinMax(fold_min(xs), fold_max(xs), FALSE, << >>)

calculate_min_max_y(panel) ==
    LET groups == panel_groups(panel.layers, 1)
        has_bars == \E g \in 1..Len(groups) : groups[g].style.kind = "Bar"
        ys == UNION { Range(groups[g].y) \cup Range(groups[g].y_start) :
                      g \in 1..Len(groups) } \ {F64NaN}
        min == fold_min(ys)
        max == fold_max(ys)
    IN MinMax(IF has_bars /\ min > 0 THEN 0 ELSE min,
              IF has_bars /\ max < 0 THEN 0 ELSE max,
              FALSE, << >>)

merge_ranges_mutant(locals) == locals[1]

merge_ranges(locals) ==
    LET min == fold_min({ locals[i].min : i \in 1..Len(locals) } \ {F64Inf})
        max == fold_max({ locals[i].max : i \in 1..Len(locals) } \ {F64NegInf})
        cat == SelectSeq(locals, LAMBDA m : m.is_categorical)
        categories == first_non_empty([i \in 1..Len(cat) |-> cat[i].categories])
    IN IF min = F64Inf
       THEN MinMax(0, Unit, Len(cat) > 0, categories)
       ELSE MinMax(min, max, Len(cat) > 0, categories)

pad_range_mutant(min, max) == << min, max >>

pad_range(min, max) ==
    IF min = max
    THEN << f64_sub(min, Unit), f64_add(max, Unit) >>
    ELSE LET padding == f64_times_005(f64_sub(max, min))
         IN << f64_sub(min, padding), f64_add(max, padding) >>

is_reverse_mutant(scale_spec) == FALSE

is_reverse(scale_spec) == IsSome(scale_spec) /\ scale_spec[1].scale_type = "Reverse"

categorical_range_mutant(n, scale_spec) == << 0 - Unit \div 2, n * Unit - Unit \div 2 >>

\* the coordinate range of a categorical x scale of n categories
categorical_range(n, scale_spec) ==
    IF is_reverse(scale_spec)
    THEN << n * Unit - Unit \div 2, 0 - Unit \div 2 >>
    ELSE << 0 - Unit \div 2, n * Unit - Unit \div 2 >>

continuous_scale_mutant(mm, scale_spec) ==
    LET dom == pad_range(mm.min, mm.max)
    IN [domain |-> dom,
        range |-> IF is_reverse(scale_spec) THEN << dom[2], dom[1] >> ELSE dom,
        is_categorical |-> FALSE,
        categories |-> << >>]

\* a continuous Scale: the limits if given, else the padded raw range
continuous_scale(mm, scale_spec) ==
    LET dom == IF IsSome(scale_spec) /\ IsSome(scale_spec[1].limits)
               THEN scale_spec[1].limits[1]
               ELSE pad_range(mm.min, mm.max)
    IN [domain |-> dom,
        range |-> IF is_reverse(scale_spec) THEN << dom[2], dom[1] >> ELSE dom,
        is_categorical |-> FALSE,
        categories |-> << >>]

scales_mode(spec) == IF IsSome(spec.facet) THEN spec.facet[1].scales ELSE "Fixed"

build_scales(rdata, spec) ==
    LET x_local == [p \in 1..Len(rdata.panels) |-> calculate_min_max_x(rdata.panels[p])]
        y_local == [p \in 1..Len(rdata.panels) |-> calculate_min_max_y(rdata.panels[p])]
        share_x == scales_mode(spec) \in {"Fixed", "FreeY"}
        share_y == scales_mode(spec) \in {"Fixed", "FreeX"}
    IN Ok([panels |->
            [p \in 1..Len(rdata.panels) |->
               LET x_mm == IF share_x THEN merge_ranges(x_local) ELSE x_local[p]
                   y_mm == IF share_y THEN merge_ranges(y_local) ELSE y_local[p]
               IN [x |-> IF x_mm.is_categorical
                         THEN [domain |-> << 0, Len(x_mm.categories) * Unit >>,
                               range |-> categorical_range(Len(x_mm.categories),
                                                           spec.x_scale_spec),
                               is_categorical |-> TRUE,
                               categories |-> x_mm.categories]
                         ELSE continuous_scale(x_mm, spec.x_scale_spec),
                   y |-> continuous_scale(y_mm, spec.y_scale_spec)]]])

(***************************************************************************)
(* Compiler (src/src/compiler.rs)                                          *)
(***************************************************************************)
\* f64::round as i64, scaled back: halves round away from zero
f64_round(x) ==
    IF x >= 0 THEN ((2 * x + Unit) \div (2 * Unit)) * Unit
    ELSE 0 - (((2 * (0 - x) + Unit) \div (2 * Unit)) * Unit)

\* the position adjustment of a layer
layer_position(layer) ==
    CASE layer.kind = "Bar" -> layer.position
      [] layer.kind = "Boxplot" -> "Dodge"
      [] OTHER -> "Identity"

occupants_mutant(groups, key) ==
    SortNums([g \in 1..Len(groups) |-> g])

\* x_occupancy[key]: the indices of the groups with a point at `key`,
\* sorted and de-duplicated
occupants(groups, key) ==
    LET at == { g \in 1..Len(groups) :
                  \E i \in 1..Len(groups[g].x) : f64_round(groups[g].x[i]) = key }
        idx == SelectSeqIdx(groups, LAMBDA g : g \in at)
    IN SortNums(idx)

\* (slot_width, x_offset) of the point of group `group_idx` at x_center
dodge(position, groups, group_idx, x_center, width_ratio) ==
    IF position = "Dodge"
    THEN LET occ == occupants(groups, f64_round(x_center))
             num_at_x == Len(occ)
             rank == Position(occ, LAMBDA g : g = group_idx)
         IN IF num_at_x > 0 /\ IsSome(rank)
            THEN LET slot == width_ratio \div num_at_x
                 IN << slot, ((2 * (rank[1] - 1) - (num_at_x - 1)) * slot) \div 2 >>
            ELSE << width_ratio, 0 >>
    ELSE << width_ratio, 0 >>

flip_mutant(is_flipped, pt) == pt

flip(is_flipped, pt) == IF is_flipped THEN << pt[2], pt[1] >> ELSE pt

legend_of_first_mutant(i, key) == Some(key)

legend_of_first(i, key) == IF i = 1 THEN Some(key) ELSE None

DrawLine(points, style, legend) ==
    [cmd |-> "DrawLine", points |-> points, style |-> style, legend |-> legend]
DrawPoint(points, style, legend) ==
    [cmd |-> "DrawPoint", points |-> points, style |-> style, legend |-> legend]
DrawPolygon(points, style, legend) ==
    [cmd |-> "DrawPolygon", points |-> points, style |-> style, legend |-> legend]
DrawRect(tl, br, style, legend) ==
    [cmd |-> "DrawRect", tl |-> tl, br |-> br, style |-> style, legend |-> legend]

\* unwrap_or(0.8) for bars, unwrap_or(0.5) for boxplots
width_or(style, default_num, default_den) ==
    IF IsSome(style.width) THEN style.width[1] ELSE (default_num * Unit) \div default_den

\* the DrawRect of point i of a Bar group
\* the bar placed by its dodge result d = << adjusted width, offset >>
bar_dodged(group, i, is_flipped, d) ==
    LET x_final == group.x[i] + d[2]
        half_width == d[1] \div 2
    IN DrawRect(flip(is_flipped, << x_final - half_width, group.y[i] >>),
                flip(is_flipped, << x_final + half_width, group.y_start[i] >>),
                group.style, legend_of_first(i, group.key))

bar_command(position, groups, group_idx, i, is_flipped) ==
    bar_dodged(groups[group_idx], i, is_flipped,
               dodge(position, groups, group_idx, groups[group_idx].x[i],
                     width_or(groups[group_idx].style, 4, 5)))

compute_boxplot_geometry(x, width, min, q1, median, q3, max, outliers, is_vertical) ==
    LET half_width == width \div 2
        cap_half == ((width * 2) \div 5) \div 2
        f == ~ is_vertical
    IN [lower_whisker |-> << flip(f, << x, min >>), flip(f, << x, q1 >>) >>,
        upper_whisker |-> << flip(f, << x, q3 >>), flip(f, << x, max >>) >>,
        min_cap |-> << flip(f, << x - cap_half, min >>), flip(f, << x + cap_half, min >>) >>,
        max_cap |-> << flip(f, << x - cap_half, max >>), flip(f, << x + cap_half, max >>) >>,
        box_tl |-> IF is_vertical THEN << x - half_width, q3 >> ELSE << q1, x - half_width >>,
        box_br |-> IF is_vertical THEN << x + half_width, q1 >> ELSE << q3, x + half_width >>,
        median_line |-> << flip(f, << x - half_width, median >>),
                           flip(f, << x + half_width, median >>) >>,
        outlier_points |-> [o \in 1..Len(outliers) |-> flip(f, << x, outliers[o] >>)]]

\* boxplot_component_styles, for a layer without outlier_* settings
boxplot_component_styles(style) ==
    [whisker |-> [kind |-> "Line", color |-> style.color, width |-> Some(2 * Unit),
                  alpha |-> style.alpha],
     box |-> [kind |-> "Bar", color |-> style.color, alpha |-> style.alpha, width |-> None],
     median |-> [kind |-> "Line", color |-> Some("white"), width |-> Some(2 * Unit),
                 alpha |-> Some((9 * Unit) \div 10)],
     outlier |-> [kind |-> "Point", color |-> style.color, width |-> None, shape |-> None,
                  alpha |-> style.alpha]]

boxplot_draw_mutant(group, i, st, geom) ==
    << DrawLine(geom.lower_whisker, st.whisker, None),
       DrawLine(geom.upper_whisker, st.whisker, None),
       DrawLine(geom.min_cap, st.whisker, None),
       DrawLine(geom.max_cap, st.whisker, None),
       DrawLine(geom.median_line, st.median, None),
       DrawRect(geom.box_tl, geom.box_br, st.box, legend_of_first(i, group.key)) >>
    \o (IF Len(geom.outlier_points) > 0
        THEN << DrawPoint(geom.outlier_points, st.outlier, None) >> ELSE << >>)

\* the primitives of point i of a Boxplot group
\* the draw commands of a box with component styles st and geometry geom
boxplot_draw(group, i, st, geom) ==
    << DrawLine(geom.lower_whisker, st.whisker, None),
       DrawLine(geom.upper_whisker, st.whisker, None),
       DrawLine(geom.min_cap, st.whisker, None),
       DrawLine(geom.max_cap, st.whisker, None),
       DrawRect(geom.box_tl, geom.box_br, st.box, legend_of_first(i, group.key)),
       DrawLine(geom.median_line, st.median, None) >>
    \o (IF Len(geom.outlier_points) > 0
        THEN << DrawPoint(geom.outlier_points, st.outlier, None) >> ELSE << >>)

boxplot_commands(position, groups, group_idx, i, is_flipped) ==
    LET group == groups[group_idx]
        d == dodge(position, groups, group_idx, group.x[i], width_or(group.style, 1, 2))
    IN boxplot_draw(group, i, boxplot_component_styles(group.style),
                    compute_boxplot_geometry(group.x[i] + d[2], d[1], group.y_min[i],
                        group.y_q1[i], group.y_median[i], group.y_q3[i], group.y_max[i],
                        group.outliers[i], ~ is_flipped))

\* the concatenation of a sequence of sequences
RECURSIVE Concat(_)
Concat(seqs) == IF Len(seqs) = 0 THEN << >> ELSE Head(seqs) \o Concat(Tail(seqs))

\* one pass of `for (group_idx, group) in layer_data.groups`: the commands of
\* a group (the source has arms for Line, Point, Bar, Boxplot and Ribbon)
group_commands(position, groups, group_idx, is_flipped) ==
    LET group == groups[group_idx]
        n == Len(group.x)
    IN CASE group.style.kind = "Line" ->
              << DrawLine([i \in 1..n |-> flip(is_flipped, << group.x[i], group.y[i] >>)],
                          group.style, Some(group.key)) >>
         [] group.style.kind = "Point" ->
              << DrawPoint([i \in 1..n |-> flip(is_flipped, << group.x[i], group.y[i] >>)],
                           group.style, Some(group.key)) >>
         [] group.style.kind = "Bar" ->
              [i \in 1..n |-> bar_command(position, groups, group_idx, i, is_flipped)]
         [] group.style.kind = "Boxplot" ->
              Concat([i \in 1..n |->
                        boxplot_commands(position, groups, group_idx, i, is_flipped)])
         [] group.style.kind = "Ribbon" ->
              << DrawPolygon(
                   [i \in 1..n |-> flip(is_flipped, << group.x[i], group.y_max[i] >>)]
                   \o [i \in 1..n |-> flip(is_flipped, << group.x[n + 1 - i],
                                                          group.y_min[n + 1 - i] >>)],
                   group.style, Some(group.key)) >>

layer_commands_mutant(layer_spec, layer_data, is_flipped) ==
    Concat([g \in 1..Len(layer_data.groups) |->
              group_commands(layer_position(layer_spec.original_layer),
                             layer_data.groups, Len(layer_data.groups) + 1 - g,
                             is_flipped)])

\* the commands of one layer of a panel
layer_commands(layer_spec, layer_data, is_flipped) ==
    Concat([g \in 1..Len(layer_data.groups) |->
              group_commands(layer_position(layer_spec.original_layer),
                             layer_data.groups, g, is_flipped)])

\* panel_titles.get(index).filter(non-empty).map(format!("{} = {}", col, s))
panel_title(rdata, index, spec) ==
    IF index + 1 <= Len(rdata.facet_layout.panel_titles)
       /\ Len(rdata.facet_layout.panel_titles[index + 1]) > 0
    THEN Some(<< spec.facet[1].col, " = ", rdata.facet_layout.panel_titles[index + 1] >>)
    ELSE None

ErrPanic(what) == [kind |-> "Panic", what |-> what]

\* RenderOptions::default()
DefaultRenderOptions == [width |-> 800, height |-> 600]

compile_geometry(rdata, scale_system, spec, options) ==
    LET is_flipped == spec.coord = Some("Flip")
        n == Min2(Len(rdata.panels), Len(scale_system.panels))
    IN IF n > 0 /\ rdata.facet_layout.ncol = 0
       THEN Err(ErrPanic("attempt to divide by zero"))
       ELSE Ok([width |-> options.width,
                height |-> options.height,
                panels |->
                  [p \in 1..n |->
                     LET panel_data == rdata.panels[p]
                         panel_scales == scale_system.panels[p]
                     IN [row |-> panel_data.index \div rdata.facet_layout.ncol,
                         col |-> panel_data.index % rdata.facet_layout.ncol,
                         title |-> panel_title(rdata, panel_data.index, spec),
                         x_label |-> spec.labels.x,
                         y_label |-> spec.labels.y,
                         x_scale |-> IF is_flipped THEN panel_scales.y ELSE panel_scales.x,
                         y_scale |-> IF is_flipped THEN panel_scales.x ELSE panel_scales.y,
                         commands |->
                           Concat([l \in 1..Len(panel_data.layers) |->
                                     layer_commands(spec.layers[l], panel_data.layers[l],
                                                    is_flipped)])]],
                labels |-> spec.labels])

(***************************************************************************)
(* Inputs of the Resolver                                                  *)
(***************************************************************************)
LayerKinds == {"Line", "Point", "Bar", "Ribbon", "Boxplot", "Violin"}

Stat(name) == [name |-> name, bins |-> 0, draw_quantiles |-> << >>]
StatBin(bins) == [name |-> "Bin", bins |-> bins, draw_quantiles |-> << >>]
StatViolin(draw_quantiles) ==
    [name |-> "Violin", bins |-> 0, draw_quantiles |-> draw_quantiles]

\* Default::default() of the layer structs, with the variant's tag
DefaultLayer(kind) ==
    [kind |-> kind, stat |-> Stat("Identity"),
     x |-> None, y |-> None, ymin |-> None, ymax |-> None,
     color |-> NoValue, fill |-> NoValue, width |-> NoValue, size |-> NoValue,
     shape |-> NoValue, alpha |-> NoValue,
     position |-> "Identity", draw_quantiles |-> << >>]

Aes(x, y) ==
    [x |-> Some(x), y |-> y, color |-> None, size |-> None, shape |-> None,
     alpha |-> None, ymin |-> None, ymax |-> None]

Plot(aes, layers) ==
    [aesthetics |-> aes, layers |-> layers, labels |-> None, facet |-> None,
     coord |-> None, x_scale |-> None, y_scale |-> None]

\* the largest number of layers of a plot handed to the Resolver on its own
MaxResolveLayers == 2

\* a layer that resolves whatever the global mapping is
FillerLayer == [DefaultLayer("Line") EXCEPT !.x = Some("fx"), !.y = Some("fy")]

ResolveLayers ==
    { [DefaultLayer(k) EXCEPT !.stat = st, !.x = x, !.y = y] :
        k \in LayerKinds,
        st \in {Stat("Identity"), StatBin(2), Stat("Count")},
        x \in {None, Some("lx")},
        y \in {None, Some("ly")} }

ResolveAesthetics == {None, Some(Aes("gx", None)), Some(Aes("gx", Some("gy")))}

Fillers(n) == [i \in 1..n |-> FillerLayer]

ResolvePlots ==
    { Plot(a, Fillers(before) \o << l >> \o Fillers(after)) :
        a \in ResolveAesthetics, l \in ResolveLayers,
        before \in 0..(MaxResolveLayers - 1), after \in 0..(MaxResolveLayers - 1) }

VariableTable == [n \in {"xcol", "ycol", "w"} |->
                    CASE n = "xcol" -> "x" [] n = "ycol" -> "y" [] n = "w" -> "0.5"]

NoData == [headers |-> << >>, rows |-> << >>]

InitResolve ==
    /\ pc = "resolve"
    /\ plot \in { p \in ResolvePlots : Len(p.layers) <= MaxResolveLayers }
    /\ variables = VariableTable
    /\ data = NoData
    /\ resolved = None
    /\ render_data = None
    /\ scales = None
    /\ scene = None
    /\ arg = None
    /\ ret = None

\* runtime::render_plot, first stage: resolve_plot_aesthetics(spec, data, variables)
Resolve ==
    /\ pc = "resolve"
    /\ resolved' = Some(resolve_plot_aesthetics(plot, variables))
    /\ pc' = IF resolved'[1].ok THEN "transform" ELSE "failed"
    /\ UNCHANGED << plot, variables, data, render_data, scales, scene, arg, ret >>

\* second stage: apply_transformations(&resolved, &data)
Transform ==
    /\ pc = "transform"
    /\ \E rd \in apply_transformations(resolved[1].val, data) :
        /\ render_data' = Some(rd)
        /\ pc' = IF rd.ok THEN "scale" ELSE "failed"
    /\ UNCHANGED << plot, variables, data, resolved, scales, scene, arg, ret >>

\* third stage: build_scales(&render_data, &resolved)
BuildScales ==
    /\ pc = "scale"
    /\ scales' = Some(build_scales(render_data[1].val, resolved[1].val))
    /\ pc' = IF scales'[1].ok THEN "compile" ELSE "failed"
    /\ UNCHANGED << plot, variables, data, resolved, render_data, scene, arg, ret >>

\* fourth stage: compile_geometry(render_data, scales, &resolved, &options)
Compile ==
    /\ pc = "compile"
    /\ scene' = Some(compile_geometry(render_data[1].val, scales[1].val, resolved[1].val,
                                      DefaultRenderOptions))
    /\ pc' = IF scene'[1].ok THEN "done" ELSE "failed"
    /\ UNCHANGED << plot, variables, data, resolved, render_data, scales, arg, ret >>

NextResolve == Resolve

SpecResolve == InitResolve /\ [][NextResolve]_vars

(***************************************************************************)
(* Inputs of the Transformer: a table with the columns x, y and g          *)
(***************************************************************************)
\* the largest number of data rows of a table
MaxRows == 3

Headers == << "x", "y", "g" >>
HeaderIndex(name) == CHOOSE i \in 1..Len(Headers) : Headers[i] = name
XCol == HeaderIndex("x")
YCol == HeaderIndex("y")
GCol == HeaderIndex("g")

\* cells: "A", "B"; "2", "-1"; "a", "b"
CellA == << 65 >>
CellB == << 66 >>
Cell2 == << 50 >>
CellMinus1 == << 45, 49 >>
Cella == << 97 >>
Cellb == << 98 >>

Tables(row_kinds) ==
    { [headers |-> Headers, rows |-> rows] :
        rows \in UNION { [1..n -> row_kinds] : n \in 1..MaxRows } }

FacetBy(col) == [by |-> col, ncol |-> None, scales |-> "Fixed"]

InitPipeline(plots, tables) ==
    /\ pc = "resolve"
    /\ plot \in plots
    /\ variables = VariableTable
    /\ data \in tables
    /\ resolved = None
    /\ render_data = None
    /\ scales = None
    /\ scene = None
    /\ arg = None
    /\ ret = None

NextTransform == Resolve \/ Transform

\* stacked bars, with and without a grouping column, a facet, a Count statistic
BarRows == { << x, y, g >> : x \in {CellA, CellB}, y \in {Cell2, CellMinus1},
                            g \in {Cella, Cellb} }

StackPlots ==
    { [Plot(Some([Aes("x", Some("y")) EXCEPT !.color = color]),
            << [DefaultLayer("Bar") EXCEPT !.position = "Stack", !.stat = st] >>)
         EXCEPT !.facet = facet] :
        color \in {None, Some("g")},
        st \in {Stat("Identity"), Stat("Count")},
        facet \in {None, Some(FacetBy("g"))} }

InitStack == InitPipeline(StackPlots, Tables(BarRows))

SpecStack == InitStack /\ [][NextTransform]_vars

\* unstacked bars under the Count statistic, with and without a y column and
\* a grouping column; the y cells are "10", "20", "15"
Cell10 == << 49, 48 >>
Cell20 == << 50, 48 >>
Cell15 == << 49, 53 >>

CountRows == { << x, y, g >> : x \in {CellA, CellB}, y \in {Cell10, Cell20, Cell15},
                              g \in {Cella, Cellb} }

CountPlots ==
    { Plot(Some([Aes("x", y) EXCEPT !.color = color]),
           << [DefaultLayer("Bar") EXCEPT !.stat = Stat("Count")] >>) :
        color \in {None, Some("g")}, y \in {None, Some("y")} }

InitCount == InitPipeline(CountPlots, Tables(CountRows))

SpecCount == InitCount /\ [][NextTransform]_vars

-----------------------------------------------------------------------------
(***************************************************************************)
(* Resolver claims                                                         *)
(***************************************************************************)
Resolved == resolved[1]

\* what the plot text says about layer i, read off the PlotSpec
LayerX(i) == plot.layers[i].x
LayerY(i) == IF plot.layers[i].kind = "Ribbon" THEN None ELSE plot.layers[i].y
GlobalX == IF IsSome(plot.aesthetics) THEN plot.aesthetics[1].x ELSE None
GlobalY == IF IsSome(plot.aesthetics) THEN plot.aesthetics[1].y ELSE None
HasX(i) == IsSome(LayerX(i)) \/ IsSome(GlobalX)
HasY(i) == IsSome(LayerY(i)) \/ IsSome(GlobalY)
OthersResolve(i) ==
    \A j \in 1..Len(plot.layers) : j # i => HasX(j) /\ HasY(j)

\* C9: a layer-level x or y wins over the global mapping, the global mapping
\* is used when the layer has none, and when neither supplies x the
\* resolution fails with MissingAesthetic and there is no ResolvedSpec (the
\* request stops, nothing is transformed).
Thm_C9_OverrideWins ==
    pc # "resolve" =>
      \A i \in 1..Len(plot.layers) :
        /\ Resolved.ok =>
             LET a == Resolved.val.layers[i].aesthetics
             IN /\ a.x_col = (IF IsSome(LayerX(i)) THEN LayerX(i)[1] ELSE GlobalX[1])
                /\ a.y_col = (IF IsSome(LayerY(i)) THEN LayerY(i) ELSE GlobalY)
        /\ ~ HasX(i) =>
             /\ ~ Resolved.ok
             /\ Resolved.err.kind = "MissingAesthetic"
             /\ IsNone(Resolved.val)
             /\ pc = "failed"
             /\ IsNone(render_data)

\* a layer whose own x and y both differ from the global ones has resolved
Wit_C9_OverrideWins ==
    /\ pc = "transform"
    /\ \E i \in 1..Len(plot.layers) :
        /\ IsSome(LayerX(i)) /\ IsSome(GlobalX) /\ LayerX(i) # GlobalX
        /\ IsSome(LayerY(i)) /\ IsSome(GlobalY) /\ LayerY(i) # GlobalY
        /\ Resolved.val.layers[i].aesthetics.x_col = LayerX(i)[1]
        /\ Resolved.val.layers[i].aesthetics.y_col = LayerY(i)

\* C10 as claimed: a layer with x but without any y is accepted exactly when
\* its statistic is Bin or Count or it is a Ribbon.
Cex_C10_YOptionalByStat ==
    pc # "resolve" =>
      \A i \in 1..Len(plot.layers) :
        (HasX(i) /\ ~ HasY(i) /\ OthersResolve(i)) =>
          (Resolved.ok <=> \/ plot.layers[i].stat.name \in {"Bin", "Count"}
                           \/ plot.layers[i].kind = "Ribbon")

\* C10 amended: a layer with x but without any y is accepted exactly when it
\* is a Bar layer whose statistic is Bin or Count, or it is a Ribbon; every
\* other layer without y fails with MissingAesthetic.
Thm_C10_YOptionalBarOrRibbon ==
    pc # "resolve" =>
      \A i \in 1..Len(plot.layers) :
        (HasX(i) /\ ~ HasY(i) /\ OthersResolve(i)) =>
          /\ Resolved.ok <=>
               \/ /\ plot.layers[i].kind = "Bar"
                  /\ plot.layers[i].stat.name \in {"Bin", "Count"}
               \/ plot.layers[i].kind = "Ribbon"
          /\ ~ Resolved.ok =>
               /\ Resolved.err = ErrMissingAesthetic("y")
               /\ pc = "failed"
          /\ Resolved.ok => IsNone(Resolved.val.layers[i].aesthetics.y_col)

\* a Bar layer with the Count statistic and no y anywhere has been accepted
Wit_C10_YOptionalBarOrRibbon ==
    /\ pc = "transform"
    /\ \E i \in 1..Len(plot.layers) :
        /\ ~ HasY(i)
        /\ plot.layers[i].kind = "Bar"
        /\ plot.layers[i].stat.name = "Count"
        /\ IsNone(Resolved.val.layers[i].aesthetics.y_col)

\* points over numeric x, with and without a facet on g; the g cells are
\* "a", "b", "10", "2" and the x cells "1", "2"
Cell1 == << 49 >>

FacetRows == { << x, Cell2, g >> : x \in {Cell1, Cell2},
                                  g \in {Cella, Cellb, Cell10, Cell2} }

FacetPlots ==
    { [Plot(Some(Aes("x", Some("y"))), << DefaultLayer(kind) >>) EXCEPT !.facet = facet] :
        kind \in {"Point", "Line"}, facet \in {None, Some(FacetBy("g"))} }

InitFacet == InitPipeline(FacetPlots, Tables(FacetRows))

SpecFacet == InitFacet /\ [][NextTransform]_vars

\* points and bars over the x cells "0", "5", "10", "A" and the y cells "5",
\* "10", under every kind of axis override
Cell0 == << 48 >>
Cell5 == << 53 >>

ScaleRows == { << x, y, Cella >> : x \in {Cell0, Cell5, Cell10, CellA},
                                  y \in {Cell5, Cell10} }

AxisScale(scale_type, limits) == [scale_type |-> scale_type, limits |-> limits]

XAxisScales ==
    { None } \cup { Some(AxisScale(t, None)) : t \in {"Linear", "Log10", "Sqrt", "Reverse"} }
             \cup { Some(AxisScale(t, Some(<< 1 * Unit, 3 * Unit >>))) :
                    t \in {"Linear", "Reverse"} }

YAxisScales == { None, Some(AxisScale("Linear", Some(<< 0, 20 * Unit >>))) }

ScalePlots ==
    { [Plot(Some(Aes("x", Some("y"))), << DefaultLayer(kind) >>)
         EXCEPT !.x_scale = xs, !.y_scale = ys] :
        kind \in {"Point", "Bar"}, xs \in XAxisScales, ys \in YAxisScales }

InitScale == InitPipeline(ScalePlots, Tables(ScaleRows))

NextScale == Resolve \/ Transform \/ BuildScales

SpecScale == InitScale /\ [][NextScale]_vars

\* dodged bars and boxplots over the categories "A", "B" and the groups "a",
\* "b", "c", with the default width and with a literal one
Cellc == << 99 >>

DodgeRows == { << x, Cell2, g >> : x \in {CellA, CellB}, g \in {Cella, Cellb, Cellc} }

DodgeLayers ==
    { [DefaultLayer("Bar") EXCEPT !.position = pos, !.width = w] :
        pos \in {"Dodge", "Identity"}, w \in {NoValue, Fixed((3 * Unit) \div 5)} }
    \cup { [DefaultLayer("Boxplot") EXCEPT !.stat = Stat("Boxplot"), !.width = w] :
             w \in {NoValue, Fixed((3 * Unit) \div 5)} }

DodgePlots ==
    { Plot(Some([Aes("x", Some("y")) EXCEPT !.color = color]), << layer >>) :
        color \in {None, Some("g")}, layer \in DodgeLayers }

InitDodge == InitPipeline(DodgePlots, Tables(DodgeRows))

NextPipeline == Resolve \/ Transform \/ BuildScales \/ Compile

SpecDodge == InitDodge /\ [][NextPipeline]_vars

(***************************************************************************)
(* The Boxplot statistic on its own: the y values of one x of one group    *)
(***************************************************************************)
\* the longest sample drawn from SampleValues
MaxSampleLen == 3

SampleValues == { 1 * Unit, 2 * Unit, 10 * Unit, 100 * Unit }

\* 1, 2, ..., 10, 100
ElevenValues == [i \in 1..11 |-> IF i = 11 THEN 100 * Unit ELSE i * Unit]

Samples ==
    { ElevenValues } \cup UNION { [1..n -> SampleValues] : n \in 1..MaxSampleLen }

InitCall(args) ==
    /\ pc = "call"
    /\ plot = None
    /\ variables = VariableTable
    /\ data = NoData
    /\ resolved = None
    /\ render_data = None
    /\ scales = None
    /\ scene = None
    /\ arg \in { Some(a) : a \in args }
    /\ ret = None

\* one pass of the `for x_val in unique_x` loop of compute_boxplot_stat
BoxplotStat ==
    /\ pc = "call"
    /\ ret' = Some(boxplot_of(arg[1]))
    /\ pc' = "return"
    /\ UNCHANGED << plot, variables, data, resolved, render_data, scales, scene, arg >>

InitBoxplot == InitCall(Samples)

NextBoxplot == BoxplotStat

SpecBoxplot == InitBoxplot /\ [][NextBoxplot]_vars

(***************************************************************************)
(* The Violin statistic on its own: the y values of one x of one group     *)
(***************************************************************************)
ViolinValues == { 1 * Unit, 2 * Unit, 3 * Unit, 5 * Unit }

ViolinSamples == UNION { [1..n -> ViolinValues] : n \in 1..MaxSampleLen }

Quartiles == << << 1, 4 >>, << 1, 2 >>, << 3, 4 >> >>

\* one pass of the `for x_val in unique_x` loop of compute_violin_stat
ViolinStat ==
    /\ pc = "call"
    /\ ret' = Some(violin_of(arg[1], Quartiles))
    /\ pc' = "return"
    /\ UNCHANGED << plot, variables, data, resolved, render_data, scales, scene, arg >>

InitViolin == InitCall(ViolinSamples)

NextViolin == ViolinStat

SpecViolin == InitViolin /\ [][NextViolin]_vars

-----------------------------------------------------------------------------
(***************************************************************************)
(* Transformer claims                                                      *)
(***************************************************************************)
Rendered == render_data[1].val
Transformed == pc = "scale" /\ IsSome(render_data) /\ render_data[1].ok

\* the rows of the input table that belong to panel p
PanelRows(p) ==
    LET title == Rendered.facet_layout.panel_titles[p]
        idx == SelectSeqIdx(data.rows,
                 LAMBDA r : IsSome(plot.facet) => data.rows[r][GCol] = title)
    IN [i \in 1..Len(idx) |-> data.rows[idx[i]]]

\* the points of a layer in processing order: group after group, each in
\* row order
RECURSIVE LayerPoints(_, _)
LayerPoints(groups, g) ==
    IF g > Len(groups) THEN << >>
    ELSE [i \in 1..Len(groups[g].x) |->
            [x |-> groups[g].x[i], y |-> groups[g].y[i],
             y_start |-> groups[g].y_start[i], key |-> groups[g].key]]
         \o LayerPoints(groups, g + 1)

PointsAt(groups, x) == SelectSeq(LayerPoints(groups, 1), LAMBDA pt : pt.x = x)

\* the raw value a row contributes to its bar: its y, or 1 under Count
RawValue(row, stat) == IF stat.name = "Count" THEN Unit ELSE ParseF64(row[YCol])

\* the raw values of the panel's rows at category `cat`, in row order
RawValuesAt(p, cat, stat) ==
    LET rows == SelectSeq(PanelRows(p), LAMBDA row : row[XCol] = cat)
    IN [i \in 1..Len(rows) |-> RawValue(rows[i], stat)]

KeysAscend(groups) ==
    \A i, j \in 1..Len(groups) : i < j => StrLess(groups[i].key, groups[j].key)

\* the segments at one category are contiguous from 0 and add up to `raw`
Ladder(pts, raw) ==
    /\ Len(pts) > 0 => pts[1].y_start = 0
    /\ \A i \in 2..Len(pts) : pts[i].y_start = pts[i - 1].y
    /\ SumSeq([i \in 1..Len(pts) |-> pts[i].y - pts[i].y_start]) = SumSeq(raw)
    /\ Len(pts) > 0 => pts[Len(pts)].y = SumSeq(raw)

Increasing(pts) == \A i \in 1..Len(pts) : pts[i].y_start <= pts[i].y

StackedLayers(P(_, _, _)) ==
    Transformed =>
      \A p \in 1..Len(Rendered.panels) :
        \A l \in 1..Len(plot.layers) :
          is_stacked(plot.layers[l]) =>
            LET groups == Rendered.panels[p].layers[l].groups
            IN /\ KeysAscend(groups)
               /\ \A g \in 1..Len(groups) :
                    LET cats == groups[g].x_categories[1]
                    IN \A c \in 1..Len(cats) :
                         P(PointsAt(groups, (c - 1) * Unit),
                           RawValuesAt(p, cats[c], plot.layers[l].stat),
                           groups)

\* C1 as claimed: at every category of a stacked Bar layer the segments, in
\* ascending group-key order, start at 0, each start where the previous one
\* ends, never run downwards (a non-overlapping, increasing ladder), and
\* their heights add up to the raw values at that category.
Cex_C1_StackLadderIncreasing ==
    StackedLayers(LAMBDA pts, raw, groups : Ladder(pts, raw) /\ Increasing(pts))

\* C1 amended: the segments are always contiguous from 0 and add up to the
\* raw values; they are non-overlapping and increasing when no raw value at
\* the category is negative.
Thm_C1_StackLadder ==
    StackedLayers(LAMBDA pts, raw, groups :
        /\ Ladder(pts, raw)
        /\ (\A i \in 1..Len(raw) : raw[i] >= 0) => Increasing(pts))

\* two groups stacked at one category, the second on top of a non-empty first
Wit_C1_StackLadder ==
    /\ Transformed
    /\ is_stacked(plot.layers[1])
    /\ \E p \in 1..Len(Rendered.panels) :
         LET groups == Rendered.panels[p].layers[1].groups
         IN /\ Len(groups) = 2
            /\ \E pts \in { PointsAt(groups, 0) } :
                 /\ Len(pts) >= 2
                 /\ pts[1].key # pts[Len(pts)].key
                 /\ pts[Len(pts)].y_start > 0

\* the rows of panel p that fall into the group with key `key`
GroupRows(p, l, key) ==
    LET g == group_col(Resolved.val.layers[l].aesthetics)
    IN SelectSeq(PanelRows(p), LAMBDA row : IsSome(g) => row[GCol] = key)

\* the category a point of a categorical group sits at
CategoryOf(group, i) == group.x_categories[1][(group.x[i] \div Unit) + 1]

\* C7: under the Count statistic every partition gets exactly one point per
\* distinct x value of its rows, whose y is the number of the partition's
\* rows with that x, so the y values of a partition add up to its row count;
\* the rows (A,10),(B,20),(A,15) give the two points (A, 2) and (B, 1).
Thm_C7_Count ==
    Transformed =>
      \A p \in 1..Len(Rendered.panels) :
        \A l \in { k \in 1..Len(plot.layers) : plot.layers[k].stat.name = "Count" } :
          LET groups == Rendered.panels[p].layers[l].groups
          IN /\ \A g \in 1..Len(groups) :
                  LET group == groups[g]
                      rows == GroupRows(p, l, group.key)
                      n == Len(group.x)
                  IN /\ { CategoryOf(group, i) : i \in 1..n }
                          = { rows[r][XCol] : r \in 1..Len(rows) }
                     /\ \A i, j \in 1..n : i # j => group.x[i] # group.x[j]
                     /\ \A i \in 1..n :
                          group.y[i] = Unit * Cardinality(
                            { r \in 1..Len(rows) : rows[r][XCol] = CategoryOf(group, i) })
                     /\ SumSeq(group.y) = Unit * Len(rows)
             /\ (/\ data.rows = << << CellA, Cell10, Cella >>,
                                   << CellB, Cell20, Cella >>,
                                   << CellA, Cell15, Cella >> >>)
                  => /\ Len(groups) = 1
                     /\ groups[1].x_categories = Some(<< CellA, CellB >>)
                     /\ groups[1].x = << 0, Unit >>
                     /\ groups[1].y = << 2 * Unit, Unit >>

\* the rows (A,10),(B,20),(A,15) have been counted
Wit_C7_Count ==
    /\ Transformed
    /\ plot.layers[1].stat.name = "Count"
    /\ data.rows = << << CellA, Cell10, Cella >>, << CellB, Cell20, Cella >>,
                      << CellA, Cell15, Cella >> >>
    /\ Rendered.panels[1].layers[1].groups[1].y = << 2 * Unit, Unit >>

\* C3 as claimed: for 1, 2, ..., 10, 100 the Boxplot statistic gives
\* Q1 = 3.25, median = 6, Q3 = 8.75, IQR = 5.5, upper fence = 17, the outlier
\* 100 and the upper whisker 10.
Cex_C3_BoxplotExample ==
    (pc = "return" /\ arg = Some(ElevenValues)) =>
        /\ 4 * ret[1].q1 = 13 * Unit
        /\ ret[1].median = 6 * Unit
        /\ 4 * ret[1].q3 = 35 * Unit
        /\ 2 * ret[1].iqr = 11 * Unit
        /\ ret[1].upper_fence = 17 * Unit
        /\ ret[1].outliers = << 100 * Unit >>
        /\ ret[1].upper_whisker = 10 * Unit

\* C3 amended: for 1, 2, ..., 10, 100 the Boxplot statistic gives Q1 = 3.5,
\* median = 6, Q3 = 8.5, IQR = 5, upper fence = 16, the outlier 100 and the
\* upper whisker 10.
Thm_C3_BoxplotExample ==
    (pc = "return" /\ arg = Some(ElevenValues)) =>
        /\ 2 * ret[1].q1 = 7 * Unit
        /\ ret[1].median = 6 * Unit
        /\ 2 * ret[1].q3 = 17 * Unit
        /\ ret[1].iqr = 5 * Unit
        /\ ret[1].upper_fence = 16 * Unit
        /\ ret[1].outliers = << 100 * Unit >>
        /\ ret[1].upper_whisker = 10 * Unit

\* the statistic of 1, 2, ..., 10, 100 has been computed and flags 100
Wit_C3_BoxplotExample ==
    /\ pc = "return"
    /\ arg = Some(ElevenValues)
    /\ ret[1].outliers = << 100 * Unit >>

\* the (x, y) points the rows give, in row order
RowPoints(rows) ==
    [x |-> [i \in 1..Len(rows) |-> ParseF64(rows[i][XCol])],
     y |-> [i \in 1..Len(rows) |-> ParseF64(rows[i][YCol])]]

\* the (x, y) points of the only group of layer 1 of panel p
PanelPoints(p) ==
    LET group == Rendered.panels[p].layers[1].groups[1]
    IN [x |-> group.x, y |-> group.y]

FacetValues == { data.rows[r][GCol] : r \in 1..Len(data.rows) }

\* C6: with a facet column of m distinct values there are exactly m panels,
\* panel i holds all and only the rows whose facet cell is the i-th value in
\* ascending order, the titles are those values in that order and every row
\* is in exactly one panel; without a facet one panel holds every row.
Thm_C6_FacetPartition ==
    Transformed =>
      LET panels == Rendered.panels
          titles == Rendered.facet_layout.panel_titles
      IN /\ Len(titles) = Len(panels)
         /\ \A p \in 1..Len(panels) : panels[p].index = p - 1
         /\ IF IsSome(plot.facet)
            THEN /\ Len(panels) = Cardinality(FacetValues)
                 /\ Range(titles) = FacetValues
                 /\ \A i, j \in 1..Len(titles) : i < j => StrLess(titles[i], titles[j])
                 /\ \A p \in 1..Len(panels) :
                      PanelPoints(p) =
                        RowPoints(SelectSeq(data.rows, LAMBDA row : row[GCol] = titles[p]))
                 /\ \A r \in 1..Len(data.rows) :
                      Cardinality({ p \in 1..Len(panels) : data.rows[r][GCol] = titles[p] }) = 1
                 /\ SumSeq([p \in 1..Len(panels) |-> Len(PanelPoints(p).x)]) = Len(data.rows)
            ELSE /\ Len(panels) = 1
                 /\ titles = << << >> >>
                 /\ PanelPoints(1) = RowPoints(data.rows)

\* three rows with three facet values, "10" before "2" before "a", have been
\* split into three panels
Wit_C6_FacetPartition ==
    /\ Transformed
    /\ IsSome(plot.facet)
    /\ FacetValues = { Cell10, Cell2, Cella }
    /\ Rendered.facet_layout.panel_titles = << Cell10, Cell2, Cella >>
    /\ Len(Rendered.panels) = 3

\* C8: the density curve of a Violin sample has maximum exactly 1.0 and
\* every value in [0, 1].
Thm_C8_ViolinDensity ==
    pc = "return" =>
      LET density == ret[1].density
      IN /\ Len(density) = GRID_POINTS
         /\ Len(ret[1].density_y) = GRID_POINTS
         /\ \E i \in 1..Len(density) : density[i] = Unit
         /\ \A i \in 1..Len(density) : 0 <= density[i] /\ density[i] <= Unit

\* a sample of three distinct values has a curve that peaks at 1.0 and falls
\* strictly between 0 and 1 elsewhere
Wit_C8_ViolinDensity ==
    /\ pc = "return"
    /\ Cardinality(Range(arg[1])) = 3
    /\ \E i \in 1..Len(ret[1].density) : ret[1].density[i] = Unit
    /\ \E i \in 1..Len(ret[1].density) :
         0 < ret[1].density[i] /\ ret[1].density[i] < Unit

-----------------------------------------------------------------------------
(***************************************************************************)
(* Scale Builder claims                                                    *)
(***************************************************************************)
Scaled == pc = "compile" /\ IsSome(scales) /\ scales[1].ok
Scales == scales[1].val

XCells == { data.rows[r][XCol] : r \in 1..Len(data.rows) }
XValues == { ParseF64(c) : c \in XCells }
\* the values the raw y range of panel 1 is taken over: the y and y_start of
\* every point, and 0 when the layer draws bars
YValues ==
    LET groups == Rendered.panels[1].layers[1].groups
    IN UNION { Range(groups[g].y) \cup Range(groups[g].y_start) : g \in 1..Len(groups) }
       \cup (IF plot.layers[1].kind = "Bar" THEN {0} ELSE {})

HalfUnit == Unit \div 2

\* C4 as claimed: a categorical x scale of n >= 1 categories has the
\* coordinate range (-0.5, n - 0.5) whatever override the x axis carries.
Cex_C4_CategoricalRangeAnyOverride ==
    Scaled =>
      \A p \in 1..Len(Scales.panels) :
        LET x == Scales.panels[p].x
            n == Len(x.categories)
        IN x.is_categorical =>
             /\ n >= 1
             /\ x.range = << 0 - HalfUnit, n * Unit - HalfUnit >>

\* C4 amended: a categorical x scale of n >= 1 categories has the coordinate
\* range (-0.5, n - 0.5) whatever the data values and whatever limits, log10
\* or sqrt override the x axis carries, and (n - 0.5, -0.5) under a reverse
\* override.
Thm_C4_CategoricalRange ==
    Scaled =>
      \A p \in 1..Len(Scales.panels) :
        LET x == Scales.panels[p].x
            n == Len(x.categories)
        IN /\ x.is_categorical <=>
                (plot.layers[1].kind = "Bar" \/ \E c \in XCells : ~ IsNumeric(c))
           /\ x.is_categorical =>
                /\ n >= 1
                /\ n = Cardinality(XCells)
                /\ x.domain = << 0, n * Unit >>
                /\ x.range = IF is_reverse(plot.x_scale)
                             THEN << n * Unit - HalfUnit, 0 - HalfUnit >>
                             ELSE << 0 - HalfUnit, n * Unit - HalfUnit >>

\* a categorical scale of two categories has been built under a reverse
\* override with limits
Wit_C4_CategoricalRange ==
    /\ Scaled
    /\ is_reverse(plot.x_scale)
    /\ IsSome(plot.x_scale[1].limits)
    /\ Scales.panels[1].x.is_categorical
    /\ Scales.panels[1].x.range = << 2 * Unit - HalfUnit, 0 - HalfUnit >>

\* a raw range widened by 5% of its span, or by 1 when it is a single value
Padded(min, max) ==
    IF min < max
    THEN << min - (max - min) \div 20, max + (max - min) \div 20 >>
    ELSE << min - Unit, max + Unit >>

NoLimits(scale_spec) == IsNone(scale_spec) \/ IsNone(scale_spec[1].limits)

\* C5: without explicit limits the domain of a continuous axis is the raw
\* (min, max) widened by 5% of the span on each side, or by 1 on each side
\* when min = max; values all 5 give (4, 6), the raw range [0, 10] gives
\* (-0.5, 10.5).  The raw x range is that of the x cells, the raw y range
\* that of YValues.
Thm_C5_PadRange ==
    Scaled =>
      LET x == Scales.panels[1].x
          y == Scales.panels[1].y
      IN /\ (~ x.is_categorical /\ NoLimits(plot.x_scale)) =>
              /\ x.domain = Padded(MinOf(XValues), MaxOf(XValues))
              /\ XValues = { 5 * Unit } => x.domain = << 4 * Unit, 6 * Unit >>
              /\ (MinOf(XValues) = 0 /\ MaxOf(XValues) = 10 * Unit)
                   => x.domain = << 0 - HalfUnit, 10 * Unit + HalfUnit >>
         /\ NoLimits(plot.y_scale) =>
              /\ ~ y.is_categorical
              /\ y.domain = Padded(MinOf(YValues), MaxOf(YValues))
              /\ (MinOf(YValues) = 0 /\ MaxOf(YValues) = 10 * Unit)
                   => y.domain = << 0 - HalfUnit, 10 * Unit + HalfUnit >>

\* x values all 5 have given (4, 6) and y values from 0 to 10 (-0.5, 10.5)
Wit_C5_PadRange ==
    /\ Scaled
    /\ NoLimits(plot.x_scale) /\ NoLimits(plot.y_scale)
    /\ XCells = { Cell5 }
    /\ Scales.panels[1].x.domain = << 4 * Unit, 6 * Unit >>
    /\ Scales.panels[1].y.domain = << 0 - HalfUnit, 10 * Unit + HalfUnit >>

-----------------------------------------------------------------------------
(***************************************************************************)
(* Compiler claims                                                         *)
(***************************************************************************)
Compiled == pc = "done" /\ IsSome(scene) /\ scene[1].ok
Scene == scene[1].val

\* (group, point) of every point of a layer, in drawing order
RECURSIVE PointRefs(_, _)
PointRefs(groups, g) ==
    IF g > Len(groups) THEN << >>
    ELSE [i \in 1..Len(groups[g].x) |-> [g |-> g, i |-> i]] \o PointRefs(groups, g + 1)

\* the rectangles panel p draws, in drawing order
Rects(p) == SelectSeq(Scene.panels[p].commands, LAMBDA c : c.cmd = "DrawRect")

\* the group keys with a row at category `cat` in the input table
KeysAt(cat) ==
    { IF IsSome(group_col(Resolved.val.layers[1].aesthetics))
      THEN data.rows[r][GCol] ELSE DefaultKey :
      r \in { q \in 1..Len(data.rows) : data.rows[q][XCol] = cat } }

\* the base width of a group: its literal width, else 0.8 (bars), 0.5 (boxes)
BaseWidth(group) ==
    IF IsSome(group.style.width) THEN group.style.width[1]
    ELSE IF group.style.kind = "Bar" THEN (4 * Unit) \div 5 ELSE Unit \div 2

Dodged(layer) ==
    \/ layer.kind = "Bar" /\ layer.position = "Dodge"
    \/ layer.kind = "Boxplot"

\* C2: in a dodged Bar or Boxplot layer a point at x, where k distinct groups
\* have data, gets a slot of width base_width / k centred at
\* x + (r - (k-1)/2) * base_width / k, r being the rank of its group among
\* the occupants; the k centres are symmetric around x; groups without data
\* at x do not count.  (Widths are compared multiplied by k, centres by 2k.)
Thm_C2_Dodge ==
    Compiled =>
      LET groups == Rendered.panels[1].layers[1].groups
          refs == PointRefs(groups, 1)
          rects == Rects(1)
          X(j) == groups[refs[j].g].x[refs[j].i]
          Keys(j) == KeysAt(CategoryOf(groups[refs[j].g], refs[j].i))
          K(j) == Cardinality(Keys(j))
          R(j) == Cardinality({ key \in Keys(j) : StrLess(key, groups[refs[j].g].key) })
          W(j) == BaseWidth(groups[refs[j].g])
          Width(j) == rects[j].br[1] - rects[j].tl[1]
          Centre2(j) == rects[j].br[1] + rects[j].tl[1]
      IN /\ Len(rects) = Len(refs)
         /\ \A j \in 1..Len(rects) :
              IF Dodged(plot.layers[1])
              THEN /\ K(j) * Width(j) = W(j)
                   /\ K(j) * Centre2(j) = 2 * K(j) * X(j) + (2 * R(j) - (K(j) - 1)) * W(j)
                   /\ \A h \in 1..Len(rects) :
                        (X(h) = X(j) /\ R(h) + R(j) = K(j) - 1)
                          => Centre2(h) + Centre2(j) = 4 * X(j)
              ELSE /\ Width(j) = W(j)
                   /\ Centre2(j) = 2 * X(j)

\* dodged bars of default width: two groups share category A, one group is
\* alone at category B and keeps the whole width there
Wit_C2_Dodge ==
    /\ Compiled
    /\ plot.layers[1].kind = "Bar" /\ plot.layers[1].position = "Dodge"
    /\ data.rows = << << CellA, Cell2, Cella >>, << CellA, Cell2, Cellb >>,
                      << CellB, Cell2, Cella >> >>
    /\ Len(Rendered.panels[1].layers[1].groups) = 2
    /\ \E j, h \in 1..Len(Rects(1)) :
         /\ 2 * (Rects(1)[j].br[1] - Rects(1)[j].tl[1]) = (4 * Unit) \div 5
         /\ Rects(1)[h].br[1] - Rects(1)[h].tl[1] = (4 * Unit) \div 5

-----------------------------------------------------------------------------
(***************************************************************************)
(* Inputs of the Resolver: variable references                             *)
(***************************************************************************)
\* lookup tables: the complete one, one whose w is not a number, one whose
\* xcol is itself a text that begins with '$', and one without ycol
VariableTables ==
    { VariableTable,
      [VariableTable EXCEPT !["w"] = "abc"],
      [VariableTable EXCEPT !["xcol"] = "$ycol"],
      [n \in {"xcol", "w"} |-> VariableTable[n]] }

\* one Line or Point layer with references in its x, y, colour, width or
\* size, and alpha
VariableLayers ==
    { [DefaultLayer(k) EXCEPT !.x = x, !.y = Some(y), !.color = color,
                              !.width = IF k = "Line" THEN w ELSE NoValue,
                              !.size = IF k = "Point" THEN w ELSE NoValue,
                              !.alpha = alpha] :
        k \in {"Line", "Point"},
        x \in {None, Some("$xcol"), Some("$missing")},
        y \in {"ly", "$ycol"},
        color \in {NoValue, Variable("ycol"), Variable("missing")},
        w \in {NoValue, Variable("w"), Variable("missing")},
        alpha \in {NoValue, Variable("missing")} }

VariablePlots ==
    { [Plot(a, << l >>) EXCEPT
         !.labels = IF title = None THEN None
                    ELSE Some([NoLabels EXCEPT !.title = title]),
         !.facet = IF by = None THEN None ELSE Some(FacetBy(by[1]))] :
        a \in {None, Some(Aes("gx", None)), Some(Aes("$xcol", Some("$missing")))},
        l \in VariableLayers,
        title \in {None, Some("$missing")},
        by \in {None, Some("$ycol"), Some("$missing")} }

InitVariables ==
    /\ pc = "resolve"
    /\ plot \in VariablePlots
    /\ variables \in VariableTables
    /\ data = NoData
    /\ resolved = None
    /\ render_data = None
    /\ scales = None
    /\ scene = None
    /\ arg = None
    /\ ret = None

SpecVariables == InitVariables /\ [][NextResolve]_vars

(***************************************************************************)
(* Resolver claims: variable substitution                                  *)
(***************************************************************************)
\* the '$' strings among a set of optional strings
RefStrings(options) == { o[1] : o \in { q \in options : IsSome(q) /\ IsVarRef(q[1]) } }

\* the '$' strings the plot text holds in the fields the Resolver reads
StringRefs ==
    (IF IsSome(plot.aesthetics)
     THEN RefStrings({ plot.aesthetics[1][f] : f \in Range(AesFields) }) ELSE {})
    \cup (IF IsSome(plot.facet) THEN RefStrings({ Some(plot.facet[1].by) }) ELSE {})
    \cup (IF IsSome(plot.labels)
          THEN RefStrings({ plot.labels[1][f] : f \in Range(LabelFields) }) ELSE {})
    \cup UNION { RefStrings({ plot.layers[i][f] :
                    f \in Range(LayerVarFields(plot.layers[i].kind))
                          \cap {"x", "y", "ymin", "ymax"} }) :
                 i \in 1..Len(plot.layers) }

\* the fields of layer i that hold an AestheticValue
ValueFields(i) ==
    Range(LayerVarFields(plot.layers[i].kind)) \ {"x", "y", "ymin", "ymax"}

NumericFields(i) == ValueFields(i) \ {"color", "shape", "fill"}

\* the variable names of the variable-valued aesthetics in the given fields
ValueRefs(Fields(_)) ==
    UNION { { plot.layers[i][f].v :
                f \in { g \in Fields(i) : plot.layers[i][g].tag = "Variable" } } :
            i \in 1..Len(plot.layers) }

Referenced == { VarRefName[r] : r \in StringRefs } \cup ValueRefs(ValueFields)
Missing == Referenced \ DOMAIN variables
Mismatched ==
    { n \in ValueRefs(NumericFields) \cap DOMAIN variables :
        variables[n] \notin DOMAIN VarNumber }

PositionalGiven == \A i \in 1..Len(plot.layers) : HasX(i) /\ HasY(i)

\* no variable-valued aesthetic is left in resolved layer i
NoValueRefLeft(i) ==
    \A f \in ValueFields(i) : Resolved.val.layers[i].original_layer[f].tag # "Variable"

\* C11 as claimed: a reference to an absent variable always fails with the
\* error that names it, a numeric aesthetic whose value does not parse always
\* fails with the type-mismatch error, and after a success no layer holds a
\* '$' string or a variable-valued aesthetic.
Cex_C11_ErrorNamesVariable ==
    pc # "resolve" =>
      /\ Missing # {} =>
           /\ ~ Resolved.ok
           /\ Resolved.err.kind = "UndefinedVariable"
           /\ Resolved.err.what \in Missing
      /\ Mismatched # {} =>
           /\ ~ Resolved.ok
           /\ Resolved.err.kind = "VariableTypeMismatch"
      /\ Resolved.ok =>
           \A i \in 1..Len(plot.layers) :
             /\ NoValueRefLeft(i)
             /\ \A f \in {"x", "y", "ymin", "ymax"} :
                  LET v == Resolved.val.layers[i].original_layer[f]
                  IN IsSome(v) => ~ IsVarRef(v[1])

\* C11 amended: a reference to an absent variable, or a numeric aesthetic
\* whose value does not parse, makes the resolution fail without a
\* ResolvedSpec; the error is that of the first field that fails, so an
\* UndefinedVariable error names an absent variable of the plot, a
\* VariableTypeMismatch error names a numeric aesthetic's variable whose value
\* does not parse, and each is the error returned when it is the only kind of
\* failure in the plot.  After a success no layer holds a variable-valued
\* aesthetic and every '$' string of a layer is replaced by the table's value
\* for it, in a single pass.
Thm_C11_VariableSubstitution ==
    pc # "resolve" =>
      /\ (Missing # {} \/ Mismatched # {}) =>
           /\ ~ Resolved.ok
           /\ IsNone(Resolved.val)
           /\ pc = "failed"
           /\ IsNone(render_data)
      /\ (~ Resolved.ok /\ Resolved.err.kind = "UndefinedVariable") =>
           Resolved.err.what \in Missing
      /\ (~ Resolved.ok /\ Resolved.err.kind = "VariableTypeMismatch") =>
           Resolved.err.what \in Mismatched
      /\ (PositionalGiven /\ Missing # {} /\ Mismatched = {}) =>
           Resolved.err.kind = "UndefinedVariable"
      /\ (PositionalGiven /\ Mismatched # {} /\ Missing = {}) =>
           Resolved.err.kind = "VariableTypeMismatch"
      /\ Resolved.ok =>
           \A i \in 1..Len(plot.layers) :
             /\ NoValueRefLeft(i)
             /\ \A f \in {"x", "y", "ymin", "ymax"} :
                  LET before == plot.layers[i][f]
                      after == Resolved.val.layers[i].original_layer[f]
                  IN IF IsSome(before) /\ IsVarRef(before[1])
                     THEN after = Some(variables[VarRefName[before[1]]])
                     ELSE after = before

\* a plot whose only failure is a reference to the absent variable has been
\* refused with the error that names it
Wit_C11_VariableSubstitution ==
    /\ pc = "failed"
    /\ PositionalGiven
    /\ Missing = {"missing"}
    /\ Mismatched = {}
    /\ Resolved.err = ErrUndefinedVariable("missing")
    /\ IsNone(Resolved.val)

-----------------------------------------------------------------------------
(***************************************************************************)
(* Inputs of the Transformer: cells that are not numbers                   *)
(***************************************************************************)
\* a Line layer over y = "y" or y = "g", and a Ribbon layer with ymin = "y"
\* and ymax = "g"; the y cells are "2" and "a", the g cells "5" and "b"
ParseRows == { << x, y, g >> : x \in {Cell1, Cell2}, y \in {Cell2, Cella},
                              g \in {Cell5, Cellb} }

ParsePlots ==
    { Plot(Some(Aes("x", None)), << [DefaultLayer("Line") EXCEPT !.y = Some(y)] >>) :
        y \in {"y", "g"} }
    \cup { Plot(Some(Aes("x", None)),
                << [DefaultLayer("Ribbon") EXCEPT !.ymin = Some("y"),
                                                  !.ymax = Some("g")] >>) }

InitParse == InitPipeline(ParsePlots, Tables(ParseRows))

SpecParse == InitParse /\ [][NextTransform]_vars

(***************************************************************************)
(* Transformer claims: extraction errors                                   *)
(***************************************************************************)
\* the cells of the table in the column named by an optional column name
ColumnCells(col) ==
    IF IsNone(col) THEN {}
    ELSE { data.rows[r][HeaderIndex(col[1])] : r \in 1..Len(data.rows) }

\* the cells layer 1 reads as numbers: its y, ymin and ymax columns
NumberCells ==
    LET aes == Resolved.val.layers[1].aesthetics
    IN ColumnCells(aes.y_col) \cup ColumnCells(aes.ymin_col) \cup ColumnCells(aes.ymax_col)

Unparsable == { c \in NumberCells : ~ IsNumeric(c) }

\* C12: whenever a y, ymin or ymax cell read by the layer is not a number
\* the Transformer fails with the parse error that names such a cell and
\* there is no render data.
Cex_C12_ParseErrorNamesCell ==
    (pc \in {"scale", "failed"} /\ IsSome(render_data) /\ Unparsable # {}) =>
        /\ ~ render_data[1].ok
        /\ render_data[1].err.kind = "ParseValueError"
        /\ render_data[1].err.what \in Unparsable

-----------------------------------------------------------------------------
(***************************************************************************)
(* Inputs of the Transformer: categories that parse to the same number     *)
(***************************************************************************)
\* the cell "01": str::parse::<f64>() reads it as 1.0, like "1"
Cell01 == << 48, 49 >>

\* bars (categorical x) and lines over the x cells "1", "01" and "2", with
\* and without a grouping column
TieRows == { << x, Cell2, g >> : x \in {Cell1, Cell01, Cell2}, g \in {Cella, Cellb} }

TiePlots ==
    { Plot(Some([Aes("x", Some("y")) EXCEPT !.color = color]), << DefaultLayer(k) >>) :
        k \in {"Bar", "Line"}, color \in {None, Some("g")} }

InitTie == InitPipeline(TiePlots, Tables(TieRows))

SpecTie == InitTie /\ [][NextTransform]_vars

(***************************************************************************)
(* Transformer claims: determinism                                         *)
(***************************************************************************)
\* C13: transforming the same resolved specification and dataset again gives
\* the same result: the render data the Transformer returned is the only
\* one it can return for this input, whatever order the hash containers are
\* iterated in.
Cex_C13_Deterministic ==
    (pc \in {"scale", "failed"} /\ IsSome(render_data)) =>
        \A again \in apply_transformations(Resolved.val, data) : again = render_data[1]

-----------------------------------------------------------------------------
(***************************************************************************)
(* Inputs of the Scale Builder: facets and their scale-sharing mode        *)
(***************************************************************************)
\* points and bars over the cells (x, y) = ("1", "2"), ("5", "10"), ("A", "2"),
\* without facet and with a facet on g in each of the four modes
ShareRows == { << xy[1], xy[2], g >> :
                 xy \in { << Cell1, Cell2 >>, << Cell5, Cell10 >>, << CellA, Cell2 >> },
                 g \in {Cella, Cellb} }

FacetScalesModes == {"Fixed", "FreeX", "FreeY", "Free"}

SharePlots ==
    { [Plot(Some(Aes("x", Some("y"))), << DefaultLayer(kind) >>) EXCEPT !.facet = facet] :
        kind \in {"Point", "Bar"},
        facet \in {None} \cup { Some([FacetBy("g") EXCEPT !.scales = m]) :
                                m \in FacetScalesModes } }

InitShare == InitPipeline(SharePlots, Tables(ShareRows))

SpecShare == InitShare /\ [][NextScale]_vars

(***************************************************************************)
(* Scale Builder claims: sharing across panels                             *)
(***************************************************************************)
\* the scales the Scale Builder gives panel p when it is the only panel
AloneScales(p) ==
    build_scales([Rendered EXCEPT !.panels = << Rendered.panels[p] >>],
                 Resolved.val).val.panels[1]

\* the x and the y values of the points of panel p
PanelXs(p) ==
    LET groups == panel_groups(Rendered.panels[p].layers, 1)
    IN UNION { Range(groups[g].x) : g \in 1..Len(groups) }

PanelYs(p) ==
    LET groups == panel_groups(Rendered.panels[p].layers, 1)
    IN UNION { Range(groups[g].y) : g \in 1..Len(groups) }

\* the extent of an axis: the category slots of a categorical scale, the
\* domain of a continuous one
Covers(scale, v) ==
    IF scale.is_categorical
    THEN scale.range[1] <= v /\ v <= scale.range[2]
    ELSE scale.domain[1] <= v /\ v <= scale.domain[2]

SharedX ==
    \A p, q \in 1..Len(Scales.panels) :
        /\ Scales.panels[p].x = Scales.panels[q].x
        /\ \A v \in PanelXs(q) : Covers(Scales.panels[p].x, v)

SharedY ==
    \A p, q \in 1..Len(Scales.panels) :
        /\ Scales.panels[p].y = Scales.panels[q].y
        /\ \A v \in PanelYs(q) : Covers(Scales.panels[p].y, v)

OwnX == \A p \in 1..Len(Scales.panels) : Scales.panels[p].x = AloneScales(p).x
OwnY == \A p \in 1..Len(Scales.panels) : Scales.panels[p].y = AloneScales(p).y

\* every panel has the same x (y) scale
SameX == \A p, q \in 1..Len(Scales.panels) : Scales.panels[p].x = Scales.panels[q].x
SameY == \A p, q \in 1..Len(Scales.panels) : Scales.panels[p].y = Scales.panels[q].y

\* no panel has a categorical x axis
ContinuousX == \A p \in 1..Len(Scales.panels) : ~ AloneScales(p).x.is_categorical

OverrideRows == { << Cell0, Cell5, Cella >>, << Cell5, Cell10, Cella >>,
                  << CellA, Cell5, Cella >> }

ScaleTypes == {"Linear", "Log10", "Sqrt", "Reverse"}

OverrideLimits == << 1 * Unit, 3 * Unit >>

AxisOverrides ==
    { None } \cup { Some(AxisScale(t, l)) : t \in ScaleTypes,
                                            l \in {None, Some(OverrideLimits)} }

OverridePlots ==
    { [Plot(Some(Aes("x", Some("y"))), << DefaultLayer(kind) >>)
         EXCEPT !.x_scale = xs, !.y_scale = ys] :
        kind \in {"Point", "Bar"}, xs \in AxisOverrides, ys \in AxisOverrides }

InitOverride == InitPipeline(OverridePlots, Tables(OverrideRows))

SpecOverride == InitOverride /\ [][NextScale]_vars

(***************************************************************************)
(* Scale Builder claims: axis overrides                                    *)
(***************************************************************************)
\* the scales of the same render data when neither axis has an override
PlainScales ==
    build_scales(Rendered, [Resolved.val EXCEPT !.x_scale_spec = None,
                                                !.y_scale_spec = None]).val

\* what an override asks of a continuous scale, given the scale the axis has
\* without override
OverrideApplied(scale, plain, scale_spec) ==
    LET s == scale_spec[1]
    IN /\ IsSome(s.limits) => scale.domain = s.limits[1]
       /\ ~ IsSome(s.limits) => scale.domain = plain.domain
       /\ s.scale_type = "Reverse" =>
              /\ scale.domain[1] <= scale.domain[2]
              /\ scale.range = << scale.domain[2], scale.domain[1] >>
       /\ s.scale_type \in {"Linear", "Log10", "Sqrt"} => scale.range = scale.domain

\* C15: on a continuous axis with an override, limits (lo, hi) are the
\* domain in place of the padded data range; Reverse keeps the domain in
\* (min, max) order and makes the range (max, min); Linear, Log10 and Sqrt
\* leave the range equal to the domain, which is the limits or else the
\* domain the axis has without override.
Thm_C15_AxisOverride ==
    Scaled =>
      \A p \in 1..Len(Scales.panels) :
        /\ (IsSome(Resolved.val.x_scale_spec) /\ ~ Scales.panels[p].x.is_categorical) =>
               OverrideApplied(Scales.panels[p].x, PlainScales.panels[p].x,
                               Resolved.val.x_scale_spec)
        /\ IsSome(Resolved.val.y_scale_spec) =>
               OverrideApplied(Scales.panels[p].y, PlainScales.panels[p].y,
                               Resolved.val.y_scale_spec)

\* a continuous x axis reversed with limits that differ from the padded data
\* range, and a Log10 y axis without limits
Wit_C15_AxisOverride ==
    /\ Scaled
    /\ ~ Scales.panels[1].x.is_categorical
    /\ Resolved.val.x_scale_spec = Some(AxisScale("Reverse", Some(OverrideLimits)))
    /\ Resolved.val.y_scale_spec = Some(AxisScale("Log10", None))
    /\ PlainScales.panels[1].x.domain # OverrideLimits
    /\ Scales.panels[1].x.range = << 3 * Unit, 1 * Unit >>
    /\ Scales.panels[1].y.range = PlainScales.panels[1].y.domain

(***************************************************************************)
(* Inputs of the Compiler: layers, groups and panels                       *)
(***************************************************************************)
\* one or two layers out of Line, Point and Bar over the x cells "1", "2",
\* grouped by the colour column g, without facet and with a facet on x
OrderRows == { << x, Cell2, g >> : x \in {Cell1, Cell2}, g \in {Cella, Cellb} }

OrderKinds == {"Line", "Point", "Bar"}

OrderLayers ==
    { << DefaultLayer(k) >> : k \in OrderKinds }
    \cup { << DefaultLayer(k1), DefaultLayer(k2) >> : k1 \in OrderKinds, k2 \in OrderKinds }

OrderPlots ==
    { [Plot(Some([Aes("x", Some("y")) EXCEPT !.color = Some("g")]), layers)
         EXCEPT !.facet = facet] :
        layers \in OrderLayers, facet \in {None, Some(FacetBy("x"))} }

InitOrder == InitPipeline(OrderPlots, Tables(OrderRows))

SpecOrder == InitOrder /\ [][NextPipeline]_vars

(***************************************************************************)
(* Compiler claims: the order of scenes and commands                       *)
(***************************************************************************)
\* the (layer, group) pairs of panel p whose pass emits the command c
Origins(p, c) ==
    LET layers == Rendered.panels[p].layers
    IN { lg \in (1..Len(layers)) \X (1..MaxRows) :
           /\ lg[2] <= Len(layers[lg[1]].groups)
           /\ c \in Range(group_commands(
                        layer_position(Resolved.val.layers[lg[1]].original_layer),
                        layers[lg[1]].groups, lg[2],
                        Resolved.val.coord = Some("Flip"))) }

\* (layer, group) a comes with or before (layer, group) b
NotAfter(a, b) == a[1] < b[1] \/ (a[1] = b[1] /\ a[2] <= b[2])

\* the commands of panel p come layer by layer and, within a layer, group
\* by group
InPassOrder(p) ==
    LET commands == Scene.panels[p].commands
    IN /\ \A a \in 1..Len(commands) : Origins(p, commands[a]) # {}
       /\ \A a, b \in 1..Len(commands) :
            a < b => \E oa \in Origins(p, commands[a]), ob \in Origins(p, commands[b]) :
                        NotAfter(oa, ob)

\* C16: the scene graph has one scene per panel, in panel order; in a scene
\* the commands of an earlier layer precede those of a later layer, and
\* within a layer the commands of an earlier group precede those of a later
\* group.
Thm_C16_CommandOrder ==
    Compiled =>
      /\ Len(Scene.panels) = Len(Rendered.panels)
      /\ \A p \in 1..Len(Scene.panels) :
           /\ Scene.panels[p].row * Rendered.facet_layout.ncol + Scene.panels[p].col
                = Rendered.panels[p].index
           /\ Scene.panels[p].title = panel_title(Rendered, Rendered.panels[p].index,
                                                  Resolved.val)
           /\ InPassOrder(p)

\* two panels, the first with two layers of two groups each, every command
\* of it emitted by one pass only
Wit_C16_CommandOrder ==
    /\ Compiled
    /\ Len(Scene.panels) = 2
    /\ Len(Rendered.panels[1].layers) = 2
    /\ \A l \in 1..2 : Len(Rendered.panels[1].layers[l].groups) = 2
    /\ Len(Scene.panels[1].commands) >= 4
    /\ \A a \in 1..Len(Scene.panels[1].commands) :
         Cardinality(Origins(1, Scene.panels[1].commands[a])) = 1

(***************************************************************************)
(* Inputs of the Compiler: coordinate flip                                 *)
(***************************************************************************)
\* every layer kind the Compiler has an arm for, with and without flip and
\* colour grouping, over x = "1" with the y cells "2", "10" in the groups
\* "a", "b", and one row of x = "2"
FlipRows == { << Cell1, y, g >> : y \in {Cell2, Cell10}, g \in {Cella, Cellb} }
            \cup { << Cell2, Cell2, Cella >> }

FlipLayers ==
    { DefaultLayer(k) : k \in {"Line", "Point", "Bar"} }
    \cup { [DefaultLayer("Bar") EXCEPT !.position = "Dodge"],
           [DefaultLayer("Boxplot") EXCEPT !.stat = Stat("Boxplot")],
           [DefaultLayer("Ribbon") EXCEPT !.ymin = Some("y"), !.ymax = Some("y")] }

FlipPlots ==
    { [Plot(Some([Aes("x", Some("y")) EXCEPT !.color = color]), << layer >>)
         EXCEPT !.coord = coord] :
        layer \in FlipLayers, color \in {None, Some("g")}, coord \in {None, Some("Flip")} }

InitFlip == InitPipeline(FlipPlots, Tables(FlipRows))

SpecFlip == InitFlip /\ [][NextPipeline]_vars

(***************************************************************************)
(* Compiler claims: coordinate flip                                        *)
(***************************************************************************)
Flipped == Compiled /\ Resolved.val.coord = Some("Flip")

\* the scene of the same render data and scales compiled without flip
Unflipped ==
    compile_geometry(Rendered, Scales, [Resolved.val EXCEPT !.coord = None],
                     DefaultRenderOptions).val

SwapPoint(pt) == << pt[2], pt[1] >>

\* a command with the components of every point and corner swapped
SwapCommand(c) ==
    IF c.cmd = "DrawRect"
    THEN [c EXCEPT !.tl = SwapPoint(c.tl), !.br = SwapPoint(c.br)]
    ELSE [c EXCEPT !.points = [i \in 1..Len(c.points) |-> SwapPoint(c.points[i])]]

\* as SwapCommand, but a rectangle keeps its value coordinates in corner
\* order: (x1, v1), (x2, v2) becomes (v2, x1), (v1, x2)
SwapBoxCommand(c) ==
    IF c.cmd = "DrawRect"
    THEN [c EXCEPT !.tl = << c.br[2], c.tl[1] >>, !.br = << c.tl[2], c.br[1] >>]
    ELSE SwapCommand(c)

SwapPanel(panel, Swap(_)) ==
    [panel EXCEPT !.x_scale = panel.y_scale, !.y_scale = panel.x_scale,
                  !.commands = [i \in 1..Len(panel.commands) |-> Swap(panel.commands[i])]]

\* C17 as stated: the flipped scene is the unflipped one with every point
\* and both corners of every rectangle swapped and the scales exchanged,
\* for every layer kind.
Cex_C17_FlipSwapsAll ==
    Flipped =>
      Scene = [Unflipped EXCEPT !.panels =
                 [p \in 1..Len(Unflipped.panels) |->
                    SwapPanel(Unflipped.panels[p], SwapCommand)]]

\* C17, amended: the same, except that the box rectangle of a Boxplot layer
\* has the corners (q1, x - w/2), (q3, x + w/2): the swapped rectangle with
\* q1 and q3 exchanged between its corners.
Thm_C17_FlipSwaps ==
    Flipped =>
      Scene = [Unflipped EXCEPT !.panels =
                 [p \in 1..Len(Unflipped.panels) |->
                    IF Resolved.val.layers[1].original_layer.kind = "Boxplot"
                    THEN SwapPanel(Unflipped.panels[p], SwapBoxCommand)
                    ELSE SwapPanel(Unflipped.panels[p], SwapCommand)]]

\* a flipped Boxplot whose box has q1 # q3 and which has drawn whiskers
Wit_C17_FlipSwaps ==
    /\ Flipped
    /\ Resolved.val.layers[1].original_layer.kind = "Boxplot"
    /\ \E i \in 1..Len(Scene.panels[1].commands) :
         LET c == Scene.panels[1].commands[i]
         IN c.cmd = "DrawRect" /\ c.tl[1] < c.br[1] /\ c.tl[2] < c.br[2]
    /\ \E i \in 1..Len(Unflipped.panels[1].commands) :
         LET c == Unflipped.panels[1].commands[i]
         IN c.cmd = "DrawRect" /\ c.tl[1] < c.br[1] /\ c.tl[2] > c.br[2]

(***************************************************************************)
(* Inputs of the Compiler: legends of bars and boxes                       *)
(***************************************************************************)
\* Bar (placed as is and dodged) and Boxplot layers, with and without colour
\* grouping, over tables that begin with three rows ("A", "2", "a") and go
\* on with up to MaxRows rows, so that a box can have an outlier
Cell100 == << 49, 48, 48 >>

LegendPrefix == [r \in 1..3 |-> << CellA, Cell2, Cella >>]

LegendRows == { << CellA, Cell2, Cella >>, << CellA, Cell100, Cella >>,
                << CellB, Cell2, Cella >>, << CellA, Cell2, Cellb >>,
                << CellB, Cell100, Cellb >> }

LegendTables ==
    { [headers |-> Headers, rows |-> LegendPrefix \o more] :
        more \in UNION { [1..n -> LegendRows] : n \in 0..MaxRows } }

LegendLayers ==
    { DefaultLayer("Bar"), [DefaultLayer("Bar") EXCEPT !.position = "Dodge"],
      [DefaultLayer("Boxplot") EXCEPT !.stat = Stat("Boxplot")] }

LegendPlots ==
    { Plot(Some([Aes("x", Some("y")) EXCEPT !.color = color]), << layer >>) :
        color \in {None, Some("g")}, layer \in LegendLayers }

InitLegend == InitPipeline(LegendPlots, LegendTables)

SpecLegend == InitLegend /\ [][NextPipeline]_vars

(***************************************************************************)
(* Compiler claims: legend labels of bars and boxes                        *)
(***************************************************************************)
\* C18: in a Bar or Boxplot layer the rectangle of the first point of a
\* group carries the group key as legend and every other rectangle of the
\* group carries none, so a group with data has exactly one command with a
\* legend; the whiskers, caps, median lines and outlier points carry none.
Thm_C18_LegendOnFirst ==
    Compiled =>
      LET groups == Rendered.panels[1].layers[1].groups
          refs == PointRefs(groups, 1)
          rects == Rects(1)
          commands == Scene.panels[1].commands
      IN /\ Len(rects) = Len(refs)
         /\ \A j \in 1..Len(rects) :
              rects[j].legend = IF refs[j].i = 1 THEN Some(groups[refs[j].g].key)
                                ELSE None
         /\ \A g \in 1..Len(groups) :
              Len(groups[g].x) > 0 =>
                Cardinality({ j \in 1..Len(rects) :
                                refs[j].g = g /\ IsSome(rects[j].legend) }) = 1
         /\ \A n \in 1..Len(commands) :
              commands[n].cmd # "DrawRect" => commands[n].legend = None

\* a Boxplot of two groups, one of them with boxes at two x and so with a
\* rectangle without legend, and with an outlier drawn
Wit_C18_LegendOnFirst ==
    /\ Compiled
    /\ plot.layers[1].kind = "Boxplot"
    /\ Len(Rendered.panels[1].layers[1].groups) = 2
    /\ \E j \in 1..Len(Rects(1)) : Rects(1)[j].legend = None
    /\ \E j, h \in 1..Len(Rects(1)) :
         /\ IsSome(Rects(1)[j].legend) /\ IsSome(Rects(1)[h].legend)
         /\ Rects(1)[j].legend # Rects(1)[h].legend
    /\ \E n \in 1..Len(Scene.panels[1].commands) :
         Scene.panels[1].commands[n].cmd = "DrawPoint"

(***************************************************************************)
(* Inputs of the Boxplot statistic: samples with values outside the fences *)
(***************************************************************************)
\* the longest sample drawn from WhiskerValues
MaxWhiskerLen == 5

WhiskerValues == { 1 * Unit, 10 * Unit, 11 * Unit, 100 * Unit }

WhiskerSamples == UNION { [1..n -> WhiskerValues] : n \in 1..MaxWhiskerLen }

InitWhisker == InitCall(WhiskerSamples)

SpecWhisker == InitWhisker /\ [][NextBoxplot]_vars

(***************************************************************************)
(* Boxplot claims: whiskers and outliers                                   *)
(***************************************************************************)
\* v is not below Q1 - 1.5 * IQR (compared doubled)
NotBelowFence(box, v) == 2 * v >= 2 * box.q1 - 3 * (box.q3 - box.q1)

\* v is not above Q3 + 1.5 * IQR (compared doubled)
NotAboveFence(box, v) == 2 * v <= 2 * box.q3 + 3 * (box.q3 - box.q1)

Occurrences(seq, v) == Cardinality({ i \in 1..Len(seq) : seq[i] = v })

\* C20: the lower whisker is the smallest data value not below the lower
\* fence, the upper whisker the largest one not above the upper fence; the
\* outliers are the data values strictly outside the fences, each as often
\* as it occurs; every value lies between the whiskers or is an outlier,
\* never both.
Thm_C20_WhiskersAndOutliers ==
    pc = "return" =>
      LET ys == arg[1]
          box == ret[1]
      IN /\ box.lower_whisker \in Range(ys)
         /\ NotBelowFence(box, box.lower_whisker)
         /\ \A v \in Range(ys) : NotBelowFence(box, v) => box.lower_whisker <= v
         /\ box.upper_whisker \in Range(ys)
         /\ NotAboveFence(box, box.upper_whisker)
         /\ \A v \in Range(ys) : NotAboveFence(box, v) => v <= box.upper_whisker
         /\ \A v \in Range(ys) \cup Range(box.outliers) :
              Occurrences(box.outliers, v) =
                IF NotBelowFence(box, v) /\ NotAboveFence(box, v) THEN 0
                ELSE Occurrences(ys, v)
         /\ \A v \in Range(ys) :
              (box.lower_whisker <= v /\ v <= box.upper_whisker)
                <=> v \notin Range(box.outliers)

\* 1, 10, 10, 11, 100: both 1 and 100 are outliers and the whiskers are the
\* data values 10 and 11
Wit_C20_WhiskersAndOutliers ==
    /\ pc = "return"
    /\ Range(ret[1].outliers) = { 1 * Unit, 100 * Unit }
    /\ ret[1].lower_whisker = 10 * Unit
    /\ ret[1].upper_whisker = 11 * Unit
    /\ ret[1].lower_fence < ret[1].lower_whisker
    /\ ret[1].upper_whisker < ret[1].upper_fence

(***************************************************************************)
(* The Bin statistic on its own: the partitions of one layer               *)
(***************************************************************************)
\* one or two partitions of up to MaxSampleLen rows with the x cells "0",
\* "1", "3", binned into 1, 2 or 3 bins
BinCells == { Cell0, Cell1, << 51 >> }

BinColumns == UNION { [1..n -> BinCells] : n \in 1..MaxSampleLen }

RawGroup(xs) ==
    [x |-> xs, y |-> [i \in 1..Len(xs) |-> 0], ymin |-> [i \in 1..Len(xs) |-> 0],
     ymax |-> [i \in 1..Len(xs) |-> 0]]

BinGroups ==
    { [k \in {Cella} |-> RawGroup(xa)] : xa \in BinColumns }
    \cup { [k \in {Cella, Cellb} |-> IF k = Cella THEN RawGroup(xa) ELSE RawGroup(xb)] :
             xa \in BinColumns, xb \in BinColumns }

BinCounts == 1..3

BinArgs == { [groups |-> g, bins |-> n] : g \in BinGroups, n \in BinCounts }

\* apply_statistics on a layer with Stat::Bin { bins }
BinStat ==
    /\ pc = "call"
    /\ ret' = Some(compute_bin_stat(arg[1].groups, arg[1].bins))
    /\ pc' = "return"
    /\ UNCHANGED << plot, variables, data, resolved, render_data, scales, scene, arg >>

InitBin == InitCall(BinArgs)

NextBin == BinStat

SpecBin == InitBin /\ [][NextBin]_vars

(***************************************************************************)
(* Bin claims                                                              *)
(***************************************************************************)
\* the least and the greatest x value of all partitions of the call
BinMin == MinOf({ ParseF64(x) : x \in UNION { Range(arg[1].groups[k].x) :
                                               k \in DOMAIN arg[1].groups } })
BinMax == MaxOf({ ParseF64(x) : x \in UNION { Range(arg[1].groups[k].x) :
                                               k \in DOMAIN arg[1].groups } })

\* C21: Bin with N bins divides [min, max] of all partitions' x values into
\* N equal bins; every x value, the greatest included, falls into a bin
\* with index in 0..N-1; a partition emits one point per non-empty bin (so
\* at most N), with y = count, ymin = 0, ymax = count, and its counts sum
\* to its row count.
Cex_C21_BinsWithinN ==
    pc = "return" =>
      LET groups == arg[1].groups
          N == arg[1].bins
      IN /\ ret[1].ok
         /\ \A k \in DOMAIN groups :
              LET out == ret[1].val[k]
              IN /\ \A i \in 1..Len(groups[k].x) :
                      bin_index(ParseF64(groups[k].x[i]), BinMin, BinMax - BinMin, N)
                        \in 0..(N - 1)
                 /\ Len(out.x) <= N
                 /\ SumSeq(out.y) = Len(groups[k].x) * Unit
                 /\ out.ymin = [j \in 1..Len(out.x) |-> 0]
                 /\ out.ymax = out.y

(***************************************************************************)
(* Inputs of the Transformer: the axis kind of a layer                     *)
(***************************************************************************)
\* a layer out of Line, Line with Count, Bar and Boxplot, over the column x
\* (cells "1", "A") or over the column g, alone or followed by a second
\* layer, without facet and with a facet on g
AxisRows == { << x, Cell2, g >> : x \in {Cell1, CellA}, g \in {Cella, Cellb} }

AxisLayers ==
    { [layer EXCEPT !.x = x] :
        layer \in { DefaultLayer("Line"), DefaultLayer("Bar"),
                    [DefaultLayer("Line") EXCEPT !.stat = Stat("Count")],
                    [DefaultLayer("Boxplot") EXCEPT !.stat = Stat("Boxplot")] },
        x \in {None, Some("g")} }

\* the second layers: a Line over x and a Bar over g
AxisSeconds == { DefaultLayer("Line"), [DefaultLayer("Bar") EXCEPT !.x = Some("g")] }

AxisPlots ==
    { [Plot(Some(Aes("x", Some("y"))), layers) EXCEPT !.facet = facet] :
        layers \in { << l >> : l \in AxisLayers }
                   \cup { << l1, l2 >> : l1 \in AxisLayers, l2 \in AxisSeconds },
        facet \in {None, Some(FacetBy("g"))} }

InitAxis == InitPipeline(AxisPlots, Tables(AxisRows))

SpecAxis == InitAxis /\ [][NextTransform]_vars

(***************************************************************************)
(* Transformer claims: the axis kind of a layer                            *)
(***************************************************************************)
\* the x cells of the rows layer l gets in panel p
LayerXCells(p, l) ==
    LET rows == PanelRows(p)
        c == HeaderIndex(Resolved.val.layers[l].aesthetics.x_col)
    IN { rows[r][c] : r \in 1..Len(rows) }

\* layer l is a Bar, Boxplot or Violin, or one of its x cells in panel p is
\* not a number
CategoricalByRule(p, l) ==
    \/ plot.layers[l].kind \in {"Bar", "Boxplot", "Violin"}
    \/ \E c \in LayerXCells(p, l) : ~ IsNumeric(c)

\* C22: the x axis of a layer is categorical exactly when the layer is a
\* Bar, Boxplot or Violin or one of its x strings is not a number; every
\* group of the layer has the same axis kind, whatever the other layers of
\* the panel are.
Thm_C22_AxisKind ==
    Transformed =>
      \A p \in 1..Len(Rendered.panels) :
        \A l \in 1..Len(Rendered.panels[p].layers) :
          LET groups == Rendered.panels[p].layers[l].groups
          IN \A g \in 1..Len(groups) :
               IsSome(groups[g].x_categories) <=> CategoricalByRule(p, l)

\* a panel with a continuous Line layer of two groups next to a categorical
\* layer
Wit_C22_AxisKind ==
    /\ Transformed
    /\ Len(Rendered.panels[1].layers) = 2
    /\ plot.layers[1].kind = "Line"
    /\ ~ CategoricalByRule(1, 1)
    /\ Len(Rendered.panels[1].layers[1].groups) >= 1
    /\ CategoricalByRule(1, 2)
    /\ Len(Rendered.panels[1].layers[2].groups) >= 1
    /\ IsSome(Rendered.panels[1].layers[2].groups[1].x_categories)
    /\ IsNone(Rendered.panels[1].layers[1].groups[1].x_categories)

(***************************************************************************)
(* Inputs of the Transformer: category indices                             *)
(***************************************************************************)
\* Bar and Line layers, grouped by colour or not, over the x cells "2",
\* "10", "02" and "A": numeric and lexicographic order differ, "2" and "02"
\* are the same number, "A" is none
Cell02 == << 48, 50 >>

CategoryRows == { << x, Cell2, g >> : x \in {Cell2, Cell10, Cell02, CellA},
                                     g \in {Cella, Cellb} }

CategoryPlots ==
    { Plot(Some([Aes("x", Some("y")) EXCEPT !.color = color]), << DefaultLayer(kind) >>) :
        kind \in {"Bar", "Line"}, color \in {None, Some("g")} }

InitCategory == InitPipeline(CategoryPlots, Tables(CategoryRows))

SpecCategory == InitCategory /\ [][NextTransform]_vars

(***************************************************************************)
(* Transformer claims: category indices                                    *)
(***************************************************************************)
\* the labels are in ascending numeric order if all are numbers, else in
\* lexicographic order
LabelsOrdered(cats) ==
    IF \A i \in 1..Len(cats) : IsNumeric(cats[i])
    THEN \A i, j \in 1..Len(cats) : i < j => ParseF64(cats[i]) <= ParseF64(cats[j])
    ELSE \A i, j \in 1..Len(cats) : i < j => StrLess(cats[i], cats[j])

\* C23: in a categorical layer the indices 0..n-1 go to the n distinct x
\* strings of all groups of the layer, in ascending numeric order if all are
\* numbers and in lexicographic order otherwise; the x of a point is the
\* index of its x string; distinct strings have distinct indices; every
\* group carries the same label list.
Thm_C23_CategoryIndices ==
    Transformed =>
      \A p \in 1..Len(Rendered.panels) :
        LET groups == Rendered.panels[p].layers[1].groups
        IN \A g \in 1..Len(groups) :
             IsSome(groups[g].x_categories) =>
               LET cats == groups[g].x_categories[1]
                   rows == GroupRows(p, 1, groups[g].key)
               IN /\ Range(cats) = LayerXCells(p, 1)
                  /\ Len(cats) = Cardinality(LayerXCells(p, 1))
                  /\ LabelsOrdered(cats)
                  /\ Len(groups[g].x) = Len(rows)
                  /\ \A i \in 1..Len(rows) :
                       /\ groups[g].x[i] % Unit = 0
                       /\ groups[g].x[i] \div Unit \in 0..(Len(cats) - 1)
                       /\ cats[(groups[g].x[i] \div Unit) + 1] = rows[i][XCol]
                  /\ \A h \in 1..Len(groups) : groups[h].x_categories = Some(cats)

\* two groups of bars over the numeric categories "2" and "10": "2" has
\* index 0 although "10" is the lesser string
Wit_C23_CategoryIndices ==
    /\ Transformed
    /\ Len(Rendered.panels[1].layers[1].groups) = 2
    /\ Rendered.panels[1].layers[1].groups[1].x_categories = Some(<< Cell2, Cell10 >>)
    /\ Rendered.panels[1].layers[1].groups[2].x = << Unit >>
    /\ StrLess(Cell10, Cell2)

(***************************************************************************)
(* Scale Builder claims: domain and range                                  *)
(***************************************************************************)
Swapped(pair) == << pair[2], pair[1] >>

\* the axis has an override of scale type Reverse
ReverseOverride(scale_spec) ==
    \E i \in 1..Len(scale_spec) : scale_spec[i].scale_type = "Reverse"

\* the range is the domain, swapped when the axis has a Reverse override
RangeIsDomain(scale, scale_spec) ==
    scale.range = IF ReverseOverride(scale_spec) THEN Swapped(scale.domain) ELSE scale.domain

\* C24 as stated: the range of every scale, continuous or categorical, is
\* its domain, with the endpoints swapped when the axis has a Reverse
\* override.
Cex_C24_RangeIsDomain ==
    Scaled =>
      \A p \in 1..Len(Scales.panels) :
        /\ RangeIsDomain(Scales.panels[p].x, Resolved.val.x_scale_spec)
        /\ RangeIsDomain(Scales.panels[p].y, Resolved.val.y_scale_spec)

\* the range of a categorical scale of n labels is its domain (0, n) moved
\* down by one half, swapped when the axis has a Reverse override
RangeIsShiftedDomain(scale, scale_spec) ==
    LET n == Len(scale.categories)
        shifted == << scale.domain[1] - Unit \div 2, scale.domain[2] - Unit \div 2 >>
    IN /\ scale.domain = << 0, n * Unit >>
       /\ scale.range = IF ReverseOverride(scale_spec) THEN Swapped(shifted) ELSE shifted

\* C24: the range of every continuous scale is its domain, with the
\* endpoints swapped when the axis has a Reverse override; the range of a
\* categorical scale of n labels is (-0.5, n - 0.5) over the domain (0, n),
\* swapped under a Reverse override, and so never equals the domain.
Thm_C24_RangeOfDomain ==
    Scaled =>
      \A p \in 1..Len(Scales.panels) :
        /\ IF Scales.panels[p].x.is_categorical
           THEN /\ RangeIsShiftedDomain(Scales.panels[p].x, Resolved.val.x_scale_spec)
                /\ ~ RangeIsDomain(Scales.panels[p].x, Resolved.val.x_scale_spec)
           ELSE RangeIsDomain(Scales.panels[p].x, Resolved.val.x_scale_spec)
        /\ RangeIsDomain(Scales.panels[p].y, Resolved.val.y_scale_spec)

\* a reversed categorical x scale of two labels beside a reversed continuous
\* y scale
Wit_C24_RangeOfDomain ==
    /\ Scaled
    /\ Scales.panels[1].x.is_categorical
    /\ ReverseOverride(Resolved.val.x_scale_spec)
    /\ ReverseOverride(Resolved.val.y_scale_spec)
    /\ Scales.panels[1].x.domain = << 0, 2 * Unit >>
    /\ Scales.panels[1].x.range = << 2 * Unit - Unit \div 2, 0 - Unit \div 2 >>
    /\ Scales.panels[1].y.range = Swapped(Scales.panels[1].y.domain)
    /\ Scales.panels[1].y.domain[1] < Scales.panels[1].y.domain[2]

(***************************************************************************)
(* Inputs of the Compiler: the primitives of a box                         *)
(***************************************************************************)
\* a Boxplot layer, which is always dodged, flipped or not, grouped by
\* colour or not, over the tables of the legend claims: three rows ("A", "2", "a")
\* followed by rows that add an outlier, a second x and a second group
BoxPlots ==
    { [Plot(Some([Aes("x", Some("y")) EXCEPT !.color = color]),
            << [DefaultLayer("Boxplot") EXCEPT !.stat = Stat("Boxplot")] >>)
         EXCEPT !.coord = coord] :
        color \in {None, Some("g")}, coord \in {None, Some("Flip")} }

InitBox == InitPipeline(BoxPlots, LegendTables)

SpecBox == InitBox /\ [][NextPipeline]_vars

(***************************************************************************)
(* Compiler claims: the primitives of a box                                *)
(***************************************************************************)
\* the kind and the geometry of a command
Shape(c) ==
    IF c.cmd = "DrawRect" THEN << c.cmd, << c.tl, c.br >> >> ELSE << c.cmd, c.points >>

\* a point at x on the category axis and v on the value axis
AtAxes(is_flipped, x, v) == IF is_flipped THEN << v, x >> ELSE << x, v >>

\* the shapes the claim gives the box of point i of group g: slot is the
\* (slot_width, x_offset) pair of the point
BoxShapes(group, i, slot, is_flipped) ==
    LET x == group.x[i] + slot[2]
        half == slot[1] \div 2
        cap == ((slot[1] * 2) \div 5) \div 2
        P(a, v) == AtAxes(is_flipped, a, v)
    IN << << "DrawLine", << P(x, group.y_min[i]), P(x, group.y_q1[i]) >> >>,
          << "DrawLine", << P(x, group.y_q3[i]), P(x, group.y_max[i]) >> >>,
          << "DrawLine", << P(x - cap, group.y_min[i]), P(x + cap, group.y_min[i]) >> >>,
          << "DrawLine", << P(x - cap, group.y_max[i]), P(x + cap, group.y_max[i]) >> >>,
          << "DrawRect", IF is_flipped
                         THEN << << group.y_q1[i], x - half >>, << group.y_q3[i], x + half >> >>
                         ELSE << << x - half, group.y_q3[i] >>, << x + half, group.y_q1[i] >> >> >>,
          << "DrawLine", << P(x - half, group.y_median[i]), P(x + half, group.y_median[i]) >> >> >>
       \o (IF Len(group.outliers[i]) > 0
           THEN << << "DrawPoint", [o \in 1..Len(group.outliers[i]) |->
                                      P(x, group.outliers[i][o])] >> >>
           ELSE << >>)

\* C25: every point of a Boxplot group becomes, in this order, the lower
\* whisker, the upper whisker, the min cap, the max cap, the box rectangle,
\* the median line and, only when it has outliers, one point set of them;
\* the box spans x +/- slot_width/2 between Q1 and Q3, the caps span
\* x +/- 0.4*slot_width/2 at the whisker ends, the whiskers join the whisker
\* ends to Q1 and Q3; under a flip the two axes are exchanged.
Thm_C25_BoxPrimitives ==
    Compiled =>
      LET groups == Rendered.panels[1].layers[1].groups
          position == layer_position(Resolved.val.layers[1].original_layer)
          is_flipped == Resolved.val.coord = Some("Flip")
          commands == Scene.panels[1].commands
      IN [n \in 1..Len(commands) |-> Shape(commands[n])]
         = Concat([g \in 1..Len(groups) |->
              Concat([i \in 1..Len(groups[g].x) |->
                 BoxShapes(groups[g], i,
                           dodge(position, groups, g, groups[g].x[i],
                                 width_or(groups[g].style, 1, 2)),
                           is_flipped)])])

\* two dodged boxes side by side at the same x, each half as wide as an
\* undodged one, of which only the first has an outlier: thirteen primitives
Wit_C25_BoxPrimitives ==
    /\ Compiled
    /\ Resolved.val.coord = None
    /\ Len(Rendered.panels[1].layers[1].groups) = 2
    /\ Len(Scene.panels[1].commands) = 13
    /\ Scene.panels[1].commands[7].cmd = "DrawPoint"
    /\ Scene.panels[1].commands[5].cmd = "DrawRect"
    /\ Scene.panels[1].commands[12].cmd = "DrawRect"
    /\ Scene.panels[1].commands[5].br[1] = Scene.panels[1].commands[12].tl[1]
    /\ Scene.panels[1].commands[5].br[1] - Scene.panels[1].commands[5].tl[1] = Unit \div 4

(***************************************************************************)
(* Inputs of the pipeline: the grid of panels                              *)
(***************************************************************************)
\* points facetted by the column g, which has up to three values, without
\* and with a fixed column count from 0 to 3
GridRows == { << Cell1, y, g >> : y \in {Cell2, Cell5}, g \in {Cella, Cellb, Cellc} }

GridColumns == { None } \cup { Some(n) : n \in 0..3 }

GridPlots ==
    { [Plot(Some(Aes("x", Some("y"))), << DefaultLayer("Point") >>)
         EXCEPT !.facet = Some([FacetBy("g") EXCEPT !.ncol = ncol])] :
        ncol \in GridColumns }

InitGrid == InitPipeline(GridPlots, Tables(GridRows))

SpecGrid == InitGrid /\ [][NextPipeline]_vars

(***************************************************************************)
(* Pipeline claims: the grid of panels                                     *)
(***************************************************************************)
\* the panels of the scene lie in distinct cells of the grid of the
\* Transformer, at row = index / ncol and col = index % ncol
InGrid ==
    LET grid == Rendered.facet_layout
    IN /\ Len(Scene.panels) = Len(Rendered.panels)
       /\ \A p \in 1..Len(Scene.panels) :
            /\ Scene.panels[p].row * grid.ncol + Scene.panels[p].col = p - 1
            /\ Scene.panels[p].row < grid.nrow
            /\ Scene.panels[p].col < grid.ncol
       /\ \A p, q \in 1..Len(Scene.panels) :
            p # q => << Scene.panels[p].row, Scene.panels[p].col >>
                       # << Scene.panels[q].row, Scene.panels[q].col >>

\* C26: for every panel count of at least one and every optional fixed
\* column count the placement of the panels completes without failure, and
\* the panels lie in distinct cells with row = index / ncol < nrow and
\* col = index % ncol < ncol.
Cex_C26_GridPlacement ==
    pc \in {"done", "failed"} => (Compiled /\ InGrid)

(***************************************************************************)
(* Boxplot claims: the order of the five numbers                           *)
(***************************************************************************)
\* C27: the box of every non-empty sample satisfies
\* lower whisker <= Q1 <= median <= Q3 <= upper whisker.
Cex_C27_FiveNumberOrder ==
    pc = "return" =>
      /\ ret[1].lower_whisker <= ret[1].q1
      /\ ret[1].q1 <= ret[1].median
      /\ ret[1].median <= ret[1].q3
      /\ ret[1].q3 <= ret[1].upper_whisker

(***************************************************************************)
(* Pipeline claims: the commands lie inside the scales                     *)
(***************************************************************************)
\* the points and corners of a command
CommandPoints(c) ==
    IF c.cmd = "DrawRect" THEN { c.tl, c.br } ELSE Range(c.points)

\* v lies within the coordinate range of a categorical scale, or within the
\* domain of a continuous one
InsideScale(scale, v) ==
    LET ends == IF scale.is_categorical THEN scale.range ELSE scale.domain
    IN Min2(ends[1], ends[2]) <= v /\ v <= Max2(ends[1], ends[2])

\* C28: without explicit axis limits every coordinate of every draw command
\* of a panel lies inside the scales of the panel, the whisker ends and the
\* outlier points of a Boxplot included.
Cex_C28_InsideScales ==
    Compiled =>
      \A p \in 1..Len(Scene.panels) :
        \A n \in 1..Len(Scene.panels[p].commands) :
          \A pt \in CommandPoints(Scene.panels[p].commands[n]) :
            /\ InsideScale(Scene.panels[p].x_scale, pt[1])
            /\ InsideScale(Scene.panels[p].y_scale, pt[2])

(***************************************************************************)
(* Scale Builder claims: the labels of a categorical x scale               *)
(***************************************************************************)
\* x is a whole index into the labels of the scale, and the label there is
\* the cell text
LabelledBy(scale, x, cell) ==
    /\ x % Unit = 0
    /\ 0 <= x \div Unit
    /\ x \div Unit < Len(scale.categories)
    /\ scale.categories[(x \div Unit) + 1] = cell

\* C29: in every panel with a categorical x scale the x of every point of
\* every group is an index into the labels of the scale, and the label at
\* that index is the x cell of the point, also when the scale is shared by
\* facet panels with different categories.
Cex_C29_LabelsOfScale ==
    Scaled =>
      \A p \in 1..Len(Scales.panels) :
        Scales.panels[p].x.is_categorical =>
          \A l \in 1..Len(Rendered.panels[p].layers) :
            LET groups == Rendered.panels[p].layers[l].groups
            IN \A g \in 1..Len(groups) :
                 LET rows == GroupRows(p, l, groups[g].key)
                 IN \A i \in 1..Len(groups[g].x) :
                      LabelledBy(Scales.panels[p].x, groups[g].x[i], rows[i][XCol])

(***************************************************************************)
(* Inputs of the Scale Builder: smoothed lines                             *)
(***************************************************************************)
\* smooth() over the x cells "1", "2" and the y cells "2", "10", without
\* facet and with a facet on g in every scale-sharing mode: a panel with one
\* row loses its only group
SmoothRows == { << x, y, g >> : x \in {Cell1, Cell2}, y \in {Cell2, Cell10},
                                g \in {Cella, Cellb} }

SmoothPlots ==
    { [Plot(Some(Aes("x", Some("y"))),
            << [DefaultLayer("Line") EXCEPT !.stat = Stat("Smooth")] >>)
         EXCEPT !.facet = facet] :
        facet \in {None} \cup { Some([FacetBy("g") EXCEPT !.scales = m]) :
                                m \in FacetScalesModes } }

InitSmooth == InitPipeline(SmoothPlots, Tables(SmoothRows))

SpecSmooth == InitSmooth /\ [][NextScale]_vars

(***************************************************************************)
(* Scale Builder claims: proper domains                                    *)
(***************************************************************************)
\* a finite domain with min < max
ProperDomain(scale) ==
    /\ scale.domain[1] \notin {F64Inf, F64NegInf, F64NaN}
    /\ scale.domain[2] \notin {F64Inf, F64NegInf, F64NaN}
    /\ scale.domain[1] < scale.domain[2]

\* C30: every scale of build_scales has a finite domain with min < max, also
\* for panels without points, as after Smooth has dropped every group of
\* fewer than two points, in every scale-sharing mode.
Cex_C30_ProperDomains ==
    Scaled =>
      \A p \in 1..Len(Scales.panels) :
        ProperDomain(Scales.panels[p].x) /\ ProperDomain(Scales.panels[p].y)

(***************************************************************************)
(* Inputs of the pipeline: a Bar and a Line layer over one numeric x       *)
(***************************************************************************)
\* aes(x: x, y: y) | bar() | line() and the same with the layers exchanged,
\* over the x cells "1", "2", "5" and the y cells "10", "20"
MixRows == { << x, y, Cella >> : x \in {Cell1, Cell2, Cell5}, y \in {Cell10, Cell20} }

MixPlots ==
    { Plot(Some(Aes("x", Some("y"))), layers) :
        layers \in { << DefaultLayer("Bar"), DefaultLayer("Line") >>,
                     << DefaultLayer("Line"), DefaultLayer("Bar") >> } }

InitMix == InitPipeline(MixPlots, Tables(MixRows))

SpecMix == InitMix /\ [][NextPipeline]_vars

(***************************************************************************)
(* Pipeline claims: mixing Bar and Line                                    *)
(***************************************************************************)
\* C19: a plot with a Bar layer and a Line layer over the same numeric x
\* column ends in an error: no scene is produced.
Cex_C19_BarLineRejected ==
    (/\ \E l \in 1..Len(plot.layers) : plot.layers[l].kind = "Bar"
     /\ \E l \in 1..Len(plot.layers) : plot.layers[l].kind = "Line")
        => ~ Compiled

=============================================================================
